---- MODULE Spec2Model ----
(***************************************************************************)
(* Oracle MCP server: SQL safety analysis, human-confirmation gate,        *)
(* multi-connection executor pool and audit trail.                         *)
(*                                                                         *)
(* Texts (SQL, keywords, error messages) are sequences of one-character    *)
(* strings, so that the lexical functions are computed character by        *)
(* character as the Go code computes them.                                 *)
(***************************************************************************)
EXTENDS Integers, Sequences, FiniteSets, TLC

(***************************************************************************)
(* Characters and the strings package                                      *)
(***************************************************************************)
LowerLetters == <<"a","b","c","d","e","f","g","h","i","j","k","l","m",
                  "n","o","p","q","r","s","t","u","v","w","x","y","z">>

UpperLetters == <<"A","B","C","D","E","F","G","H","I","J","K","L","M",
                  "N","O","P","Q","R","S","T","U","V","W","X","Y","Z">>

Digits == {"0","1","2","3","4","5","6","7","8","9"}

WhiteSpace == {" ", "\t", "\n", "\r"}

SeqRange(s) == {s[i] : i \in 1..Len(s)}

IsLetter(c) == c \in SeqRange(LowerLetters) \cup SeqRange(UpperLetters)

IsDigit(c) == c \in Digits

ToLowerChar(c) ==
    IF \E i \in 1..26 : UpperLetters[i] = c
    THEN LowerLetters[CHOOSE i \in 1..26 : UpperLetters[i] = c]
    ELSE c

ToUpperChar(c) ==
    IF \E i \in 1..26 : LowerLetters[i] = c
    THEN UpperLetters[CHOOSE i \in 1..26 : LowerLetters[i] = c]
    ELSE c

ToLower(s) == [i \in 1..Len(s) |-> ToLowerChar(s[i])]

ToUpper(s) == [i \in 1..Len(s) |-> ToUpperChar(s[i])]

HasPrefix(s, p) == Len(p) <= Len(s) /\ SubSeq(s, 1, Len(p)) = p

HasSuffix(s, p) == Len(p) <= Len(s) /\ SubSeq(s, Len(s) - Len(p) + 1, Len(s)) = p

TrimSuffix(s, p) == IF HasSuffix(s, p) THEN SubSeq(s, 1, Len(s) - Len(p)) ELSE s

\* at(s, i, sub): sub occurs in s starting at the 1-based position i
OccursAt(s, i, sub) == i >= 1 /\ i + Len(sub) - 1 <= Len(s) /\ SubSeq(s, i, i + Len(sub) - 1) = sub

Contains(s, sub) == \E i \in 1..(Len(s) - Len(sub) + 1) : OccursAt(s, i, sub)

\* 1-based position of the first occurrence of sub in s, 0 when there is none
\* (strings.Index returns the 0-based position, -1 when there is none)
Index(s, sub) ==
    IF Contains(s, sub)
    THEN CHOOSE i \in 1..(Len(s) - Len(sub) + 1) :
            OccursAt(s, i, sub) /\ \A j \in 1..(i - 1) : ~OccursAt(s, j, sub)
    ELSE 0

\* first occurrence of sub at a position >= from, 0 when there is none
IndexFrom(s, sub, from) ==
    IF \E i \in from..(Len(s) - Len(sub) + 1) : OccursAt(s, i, sub)
    THEN CHOOSE i \in from..(Len(s) - Len(sub) + 1) :
            OccursAt(s, i, sub) /\ \A j \in from..(i - 1) : ~OccursAt(s, j, sub)
    ELSE 0

\* 1-based position of the last occurrence of sub in s, 0 when there is none
LastIndex(s, sub) ==
    IF Contains(s, sub)
    THEN CHOOSE i \in 1..(Len(s) - Len(sub) + 1) :
            OccursAt(s, i, sub) /\ \A j \in (i + 1)..(Len(s) - Len(sub) + 1) : ~OccursAt(s, j, sub)
    ELSE 0

RECURSIVE TrimLeft(_)
TrimLeft(s) == IF s # <<>> /\ s[1] \in WhiteSpace THEN TrimLeft(Tail(s)) ELSE s

RECURSIVE TrimRight(_)
TrimRight(s) ==
    IF s # <<>> /\ s[Len(s)] \in WhiteSpace THEN TrimRight(SubSeq(s, 1, Len(s) - 1)) ELSE s

TrimSpace(s) == TrimRight(TrimLeft(s))

RECURSIVE ReplaceAll(_, _, _)
ReplaceAll(s, old, new) ==
    IF s = <<>> THEN <<>>
    ELSE IF HasPrefix(s, old) THEN new \o ReplaceAll(SubSeq(s, Len(old) + 1, Len(s)), old, new)
    ELSE <<s[1]>> \o ReplaceAll(Tail(s), old, new)

RECURSIVE Join(_, _)
Join(parts, sep) ==
    IF parts = <<>> THEN <<>>
    ELSE IF Len(parts) = 1 THEN parts[1]
    ELSE parts[1] \o sep \o Join(Tail(parts), sep)

(***************************************************************************)
(* Words used to write texts                                               *)
(***************************************************************************)
SP == <<" ">>

NL == <<"\n">>

SEMI == <<";">>

QUOTE == <<"'">>

w_select == <<"s","e","l","e","c","t">>

w_SELECT == <<"S","E","L","E","C","T">>

w_drop == <<"d","r","o","p">>

w_DROP == <<"D","R","O","P">>

w_create == <<"c","r","e","a","t","e">>

w_alter == <<"a","l","t","e","r">>

w_truncate == <<"t","r","u","n","c","a","t","e">>

w_rename == <<"r","e","n","a","m","e">>

w_comment == <<"c","o","m","m","e","n","t">>

w_grant == <<"g","r","a","n","t">>

w_revoke == <<"r","e","v","o","k","e">>

w_begin == <<"b","e","g","i","n">>

w_declare == <<"d","e","c","l","a","r","e">>

w_end == <<"e","n","d">>

w_procedure == <<"p","r","o","c","e","d","u","r","e">>

w_function == <<"f","u","n","c","t","i","o","n">>

w_package == <<"p","a","c","k","a","g","e">>

w_t == <<"t">>

w_1 == <<"1">>

w_tokens == <<"t","o","k","e","n","s">>

w_whole_text == <<"w","h","o","l","e","_","t","e","x","t">>

(***************************************************************************)
(* package sqlanalyzer                                                     *)
(***************************************************************************)
RECURSIVE DropUntilEOL(_)
DropUntilEOL(s) ==
    IF s = <<>> \/ s[1] \in {"\r", "\n"} THEN s ELSE DropUntilEOL(Tail(s))

\* regexp `--[^\r\n]*` replaced by one space, leftmost matches first
RECURSIVE stripLineComments(_)
stripLineComments(s) ==
    IF s = <<>> THEN <<>>
    ELSE IF HasPrefix(s, <<"-", "-">>) THEN SP \o stripLineComments(DropUntilEOL(s))
    ELSE <<s[1]>> \o stripLineComments(Tail(s))

\* regexp `/\*[\s\S]*?\*/` (non-greedy) replaced by one space
RECURSIVE stripBlockComments(_)
stripBlockComments(s) ==
    IF s = <<>> THEN <<>>
    ELSE IF HasPrefix(s, <<"/", "*">>) /\ IndexFrom(s, <<"*", "/">>, 3) # 0
         THEN SP \o stripBlockComments(SubSeq(s, IndexFrom(s, <<"*", "/">>, 3) + 2, Len(s)))
    ELSE <<s[1]>> \o stripBlockComments(Tail(s))

removeComments(sql) == stripBlockComments(stripLineComments(sql))

\* the loop of removeStringLiterals from character i on, with its two locals
RECURSIVE removeStringLiteralsLoop(_, _, _, _)
removeStringLiteralsLoop(sql, i, inString, prevChar) ==
    IF i > Len(sql) THEN <<>>
    ELSE LET char == sql[i] IN
         IF char = "'" /\ prevChar # "'"
         THEN SP \o removeStringLiteralsLoop(sql, i + 1, ~inString, char)
         ELSE IF inString
         THEN SP \o removeStringLiteralsLoop(sql, i + 1, inString, char)
         ELSE <<char>> \o removeStringLiteralsLoop(sql, i + 1, inString, char)

removeStringLiterals_trimmed(sql) == TrimSpace(removeStringLiteralsLoop(sql, 1, FALSE, ""))

removeStringLiterals(sql) == removeStringLiteralsLoop(sql, 1, FALSE, "")

isAnonymousBlock(sql) ==
    LET trimmed0 == TrimSpace(sql)
        trimmed  == TrimSuffix(trimmed0, SEMI)
        lower    == ToLower(trimmed)
        hasEnd   == Contains(lower, SP \o w_end \o SP) \/ HasSuffix(lower, SP \o w_end)
    IN  /\ trimmed0 # <<>>
        /\ (HasPrefix(lower, w_begin) \/ HasPrefix(lower, w_declare))
        /\ hasEnd

isPLSQLCreationDDL_spaceBeforeEndOnly(sql) ==
    LET trimmed == TrimSpace(sql)
        lower   == ToLower(trimmed)
        idx     == Index(lower, w_create)
        stmt    == SubSeq(lower, idx, Len(lower))
        hasPlsql == \/ Contains(stmt, w_procedure)
                    \/ Contains(stmt, SP \o w_function \o SP)
                    \/ Contains(stmt, SP \o w_package \o SP)
        hasEnd  == \/ Contains(stmt, SP \o w_end \o SP)
                   \/ Contains(stmt, SP \o w_end \o SEMI)
                   \/ HasSuffix(stmt, SP \o w_end)
    IN  /\ trimmed # <<>>
        /\ idx # 0
        /\ hasPlsql
        /\ hasEnd

\* the byte dropped for a leading BOM does not change the text from the first
\* "create" on, which is all that is inspected
isPLSQLCreationDDL(sql) ==
    LET trimmed == TrimSpace(sql)
        lower   == ToLower(trimmed)
        idx     == Index(lower, w_create)
        stmt    == SubSeq(lower, idx, Len(lower))
        hasPlsql == \/ Contains(stmt, w_procedure)
                    \/ Contains(stmt, SP \o w_function \o SP)
                    \/ Contains(stmt, SP \o w_package \o SP)
        hasEnd  == \/ Contains(stmt, SP \o w_end \o SP)
                   \/ Contains(stmt, SP \o w_end \o SEMI)
                   \/ Contains(stmt, NL \o w_end \o SP)
                   \/ Contains(stmt, NL \o w_end \o SEMI)
                   \/ HasSuffix(stmt, SP \o w_end)
                   \/ HasSuffix(stmt, SP \o w_end \o SEMI)
    IN  /\ trimmed # <<>>
        /\ idx # 0
        /\ hasPlsql
        /\ hasEnd

IsSingleStatementBlock(sql) == isPLSQLCreationDDL(sql) \/ isAnonymousBlock(sql)

KeepTrailingSemicolon(sql) == isPLSQLCreationDDL(sql) \/ isAnonymousBlock(sql)

isMultiStatement(sql) ==
    LET trimmed0 == TrimSpace(sql)
        trimmed  == TrimSuffix(trimmed0, SEMI)
        lower    == ToLower(trimmed)
        hasEnd   == Contains(lower, SP \o w_end \o SP) \/ HasSuffix(lower, SP \o w_end)
    IN  IF trimmed0 = <<>> THEN FALSE
        ELSE IF ~Contains(trimmed, SEMI) THEN FALSE
        ELSE IF isPLSQLCreationDDL(sql) THEN FALSE
        ELSE IF (HasPrefix(lower, w_begin) \/ HasPrefix(lower, w_declare)) /\ hasEnd THEN FALSE
        ELSE TRUE

IsWordChar(c) == IsLetter(c) \/ IsDigit(c) \/ c = "_"

RECURSIVE tokenizeLoop(_, _)
tokenizeLoop(lower, currentToken) ==
    LET flush == IF currentToken # <<>> THEN <<currentToken>> ELSE <<>> IN
    IF lower = <<>> THEN flush
    ELSE IF IsWordChar(lower[1]) THEN tokenizeLoop(Tail(lower), Append(currentToken, lower[1]))
    ELSE flush \o tokenizeLoop(Tail(lower), <<>>)

tokenize(sql) == tokenizeLoop(ToLower(sql), <<>>)

containsPLSQL(sql) ==
    LET tokens == tokenize(ToLower(sql)) IN
    \E i \in 1..Len(tokens) :
        \/ tokens[i] = w_declare
        \/ tokens[i] = w_begin /\ \E j \in (i + 1)..Len(tokens) : tokens[j] = w_end

ddlKeywords == <<w_create, w_drop, w_alter, w_truncate, w_rename, w_comment, w_grant, w_revoke>>

isDDL_prefixMatch(tokens) ==
    IF Len(tokens) = 0 THEN FALSE
    ELSE \E k \in 1..Len(ddlKeywords) : HasPrefix(tokens[1], ddlKeywords[k])

isDDL(tokens) ==
    IF Len(tokens) = 0 THEN FALSE
    ELSE \E k \in 1..Len(ddlKeywords) : tokens[1] = ddlKeywords[k]

RECURSIVE matchKeywordsWholeTextLoop(_, _)
matchKeywordsWholeTextLoop(lower, kws) ==
    IF kws = <<>> THEN <<>>
    ELSE (IF Contains(lower, kws[1]) THEN <<kws[1]>> ELSE <<>>)
         \o matchKeywordsWholeTextLoop(lower, Tail(kws))

matchKeywordsWholeText(dangerKeywords, sql) ==
    matchKeywordsWholeTextLoop(ToLower(sql), dangerKeywords)

matchConsecutiveTokens_firstWordOnly(tokens, kwTokens) ==
    IF Len(kwTokens) > Len(tokens) THEN FALSE
    ELSE \E i \in 0..(Len(tokens) - Len(kwTokens)) : tokens[i + 1] = kwTokens[1]

matchConsecutiveTokens(tokens, kwTokens) ==
    IF Len(kwTokens) > Len(tokens) THEN FALSE
    ELSE \E i \in 0..(Len(tokens) - Len(kwTokens)) :
            \A j \in 1..Len(kwTokens) : tokens[i + j] = kwTokens[j]

\* the loop of matchKeywords; seen[kw] holds exactly for the keywords in matched
RECURSIVE matchKeywordsLoop(_, _, _)
matchKeywordsLoop(tokens, kws, matched) ==
    IF kws = <<>> THEN matched
    ELSE LET kw       == kws[1]
             kwTokens == tokenize(kw)
             hit      == IF Len(kwTokens) = 1
                         THEN \E i \in 1..Len(tokens) : tokens[i] = kwTokens[1]
                         ELSE matchConsecutiveTokens(tokens, kwTokens)
         IN  IF kw \in SeqRange(matched) \/ Len(kwTokens) = 0
             THEN matchKeywordsLoop(tokens, Tail(kws), matched)
             ELSE matchKeywordsLoop(tokens, Tail(kws),
                                    IF hit THEN Append(matched, kw) ELSE matched)

matchKeywords(dangerKeywords, tokens) == matchKeywordsLoop(tokens, dangerKeywords, <<>>)

w_UNKNOWN == <<"U","N","K","N","O","W","N">>

\* every case of the switch returns the upper-cased first token
GetStatementType(sql) ==
    LET tokens == tokenize(removeStringLiterals(removeComments(sql))) IN
    IF Len(tokens) = 0 THEN w_UNKNOWN ELSE ToUpper(tokens[1])

NewAnalyzer(dangerKeywords, matchMode) ==
    LET mode == ToLower(TrimSpace(matchMode)) IN
    [dangerKeywords |-> [i \in 1..Len(dangerKeywords) |-> ToLower(TrimSpace(dangerKeywords[i]))],
     matchMode      |-> IF mode # w_whole_text /\ mode # w_tokens THEN w_whole_text ELSE mode]

Analyze_plsqlNotSuppressed(a, sql) ==
    LET noComments == removeComments(sql)
        noStrings  == removeStringLiterals(noComments)
        creation   == isPLSQLCreationDDL(noStrings)
        tokens     == tokenize(noStrings)
        matched    == IF a.matchMode = w_whole_text
                      THEN matchKeywordsWholeText(a.dangerKeywords, sql)
                      ELSE matchKeywords(a.dangerKeywords, tokens)
    IN  [OriginalSQL        |-> sql,
         NormalizedSQL      |-> noStrings,
         Tokens             |-> tokens,
         MatchedKeywords    |-> matched,
         IsDangerous        |-> Len(matched) > 0,
         IsDDL              |-> isDDL(tokens),
         IsMultiStatement   |-> isMultiStatement(noStrings),
         ContainsPLSQL      |-> containsPLSQL(noStrings),
         IsPLSQLCreationDDL |-> creation]

Analyze(a, sql) ==
    LET noComments == removeComments(sql)
        noStrings  == removeStringLiterals(noComments)
        creation   == isPLSQLCreationDDL(noStrings)
        tokens     == tokenize(noStrings)
        matched    == IF a.matchMode = w_whole_text
                      THEN matchKeywordsWholeText(a.dangerKeywords, sql)
                      ELSE matchKeywords(a.dangerKeywords, tokens)
    IN  [OriginalSQL        |-> sql,
         NormalizedSQL      |-> noStrings,
         Tokens             |-> tokens,
         MatchedKeywords    |-> matched,
         IsDangerous        |-> Len(matched) > 0,
         IsDDL              |-> isDDL(tokens),
         IsMultiStatement   |-> isMultiStatement(noStrings),
         ContainsPLSQL      |-> ~creation /\ containsPLSQL(noStrings),
         IsPLSQLCreationDDL |-> creation]

(***************************************************************************)
(* package oracle: Executor                                                *)
(***************************************************************************)
\* the loop of splitStatements: cut at every ";\n", keep non-blank segments
RECURSIVE splitStatements(_)
splitStatements(sql) ==
    LET sep == SEMI \o NL
        i   == Index(sql, sep)
        keep(seg) == IF TrimSpace(seg) # <<>> THEN <<TrimSpace(seg)>> ELSE <<>>
    IN  IF i = 0 THEN keep(sql)
        ELSE keep(SubSeq(sql, 1, i - 1)) \o splitStatements(SubSeq(sql, i + Len(sep), Len(sql)))

\* body of the statement loop of Executor.Execute: the text handed to the driver
\* for one statement (never called for a blank statement)
statementToSend(st0) ==
    LET st1 == TrimSpace(st0)
        st2 == IF ~HasSuffix(st1, SEMI) THEN st1 \o SEMI ELSE st1
        st3 == IF ~KeepTrailingSemicolon(st2) THEN TrimSuffix(st2, SEMI) ELSE st2
    IN  TrimSpace(st3)

\* Executor.Execute up to the loop: the statements the loop will send, in order
statementsOf(sqlText) ==
    LET normalized == ReplaceAll(ReplaceAll(TrimSpace(sqlText), <<"\r", "\n">>, NL), <<"\r">>, NL)
        statements == IF IsSingleStatementBlock(normalized)
                      THEN <<normalized>>
                      ELSE splitStatements(normalized)
        nonBlank   == SelectSeq(statements, LAMBDA st : TrimSpace(st) # <<>>)
    IN  [i \in 1..Len(nonBlank) |-> statementToSend(nonBlank[i])]

w_WITH == <<"W","I","T","H">>

isQuery(st) == HasPrefix(ToUpper(st), w_SELECT) \/ HasPrefix(ToUpper(st), w_WITH)

t_queryFailed == <<"q","u","e","r","y"," ","e","x","e","c","u","t","i","o","n"," ","f","a","i","l","e","d",":"," ">>

t_statementFailed == <<"s","t","a","t","e","m","e","n","t"," ","e","x","e","c","u","t","i","o","n"," ","f","a","i","l","e","d",":"," ">>

\* executeQuery / executeStatement wrap the driver's error
wrapDriverError(st, driverErr) ==
    (IF isQuery(st) THEN t_queryFailed ELSE t_statementFailed) \o driverErr

(***************************************************************************)
(* package oracle: ExecutorPool (pure parts)                               *)
(***************************************************************************)
connectionSignatures ==
    << <<"o","r","a","-","1","2","5","4","1">>,
       <<"o","r","a","-","1","2","5","1","4">>,
       <<"o","r","a","-","1","2","1","5","4">>,
       <<"o","r","a","-","1","2","1","7","0">>,
       <<"o","r","a","-","0","3","1","1","3">>,
       <<"o","r","a","-","0","1","0","1","2">>,
       <<"o","r","a","-","1","2","5","6","0">>,
       <<"t","n","s",":">>,
       <<"n","o"," ","l","i","s","t","e","n","e","r">>,
       <<"c","o","n","n","e","c","t","i","o","n"," ","c","l","o","s","e","d">>,
       <<"c","o","n","n","e","c","t","i","o","n"," ","r","e","s","e","t">>,
       <<"b","r","o","k","e","n"," ","p","i","p","e">>,
       <<"i","/","o"," ","t","i","m","e","o","u","t">>,
       <<"d","r","i","v","e","r",":"," ","b","a","d"," ","c","o","n","n","e","c","t","i","o","n">> >>

NoErr == <<>>

\* isConnectionError taking every error for a connection failure
isConnectionError_anyError(err) == err # NoErr

isConnectionError(err) ==
    IF err = NoErr THEN FALSE
    ELSE \E k \in 1..Len(connectionSignatures) : Contains(ToLower(err), connectionSignatures[k])

t_nameRequired == <<"c","o","n","n","e","c","t","i","o","n"," ","n","a","m","e"," ","i","s"," ","r","e","q","u","i","r","e","d"," ","w","h","e","n"," ","m","u","l","t","i","p","l","e"," ","d","a","t","a","b","a","s","e","s"," ","a","r","e"," ","c","o","n","f","i","g","u","r","e","d",";"," ","u","s","e"," ","l","i","s","t","_","c","o","n","n","e","c","t","i","o","n","s"," ","t","o"," ","s","e","e"," ","n","a","m","e","s">>

\* the failed name answered like a name that was never configured
errUnavailable_asUnknown(name) ==
    <<"u","n","k","n","o","w","n"," ","c","o","n","n","e","c","t","i","o","n"," ","\"">> \o name \o
    <<"\"",";"," ","u","s","e"," ","l","i","s","t","_","c","o","n","n","e","c","t","i","o","n","s"," ","t","o"," ","s","e","e"," ","c","o","n","f","i","g","u","r","e","d"," ","n","a","m","e","s">>

\* fmt.Errorf("connection %q is currently unavailable ...", name)
errUnavailable(name) ==
    <<"c","o","n","n","e","c","t","i","o","n"," ","\"">> \o name \o
    <<"\""," ","i","s"," ","c","u","r","r","e","n","t","l","y"," ","u","n","a","v","a","i","l","a","b","l","e"," ","(","c","o","n","n","e","c","t","i","o","n"," ","f","a","i","l","e","d",")",";"," ","c","a","l","l"," ","l","i","s","t","_","c","o","n","n","e","c","t","i","o","n","s"," ","t","o"," ","r","e","t","r","y">>

\* fmt.Errorf("unknown connection %q; ...", name)
errUnknownConnection(name) ==
    <<"u","n","k","n","o","w","n"," ","c","o","n","n","e","c","t","i","o","n"," ","\"">> \o name \o
    <<"\"",";"," ","u","s","e"," ","l","i","s","t","_","c","o","n","n","e","c","t","i","o","n","s"," ","t","o"," ","s","e","e"," ","c","o","n","f","i","g","u","r","e","d"," ","n","a","m","e","s">>

(***************************************************************************)
(* package mcp: pure parts                                                 *)
(***************************************************************************)
w_slash == <<"/">>

\* strings.TrimSuffix for "\r\n", "\n", "\r" in turn, once each per round
trimOneLineEnd(s) == TrimSuffix(TrimSuffix(TrimSuffix(s, <<"\r", "\n">>), NL), <<"\r">>)

RECURSIVE stripTrailingSlashLine(_)
stripTrailingSlashLine(s0) ==
    LET s    == trimOneLineEnd(s0)
        last == LastIndex(s, NL)
    IN  IF last = 0
        THEN (IF TrimSpace(s) = w_slash THEN <<>> ELSE s)
        ELSE IF TrimSpace(SubSeq(s, last + 1, Len(s))) = w_slash
             THEN stripTrailingSlashLine(SubSeq(s, 1, last - 1))
             ELSE s

\* needsConfirmation without the DDL clause
needsConfirmation_dangerOnly(analysis, requireConfirmForDDL) == analysis.IsDangerous

needsConfirmation(analysis, requireConfirmForDDL) ==
    analysis.IsDangerous \/ (requireConfirmForDDL /\ analysis.IsDDL)

ErrCodeUserRejected == 0 - 32000

w_USER_REJECTED == <<"U","S","E","R","_","R","E","J","E","C","T","E","D">>

w_SUCCESS == <<"S","U","C","C","E","S","S">>

w_CONFIRM_ERROR == <<"C","O","N","F","I","R","M","_","E","R","R","O","R",":"," ">>

w_EXECUTION_ERROR == <<"E","X","E","C","U","T","I","O","N","_","E","R","R","O","R",":"," ">>

t_missingSql == <<"M","i","s","s","i","n","g"," ","r","e","q","u","i","r","e","d"," ","p","a","r","a","m","e","t","e","r",":"," ","s","q","l">>

t_cannotReadFile == <<"C","a","n","n","o","t"," ","r","e","a","d"," ","f","i","l","e">>

t_fileEmpty == <<"F","i","l","e"," ","i","s"," ","e","m","p","t","y">>

t_confirmDialogError == <<"C","o","n","f","i","r","m","a","t","i","o","n"," ","d","i","a","l","o","g"," ","e","r","r","o","r",":"," ">>

t_sqlExecutionFailed == <<"S","Q","L"," ","e","x","e","c","u","t","i","o","n"," ","f","a","i","l","e","d",":"," ">>

(***************************************************************************)
(* package audit: pure parts                                               *)
(***************************************************************************)
DigitChars == <<"0","1","2","3","4","5","6","7","8","9">>

\* time.Now().Format(...): the clock reading as text (one digit per reading)
TimeText(t) == <<"T", DigitChars[(t % 10) + 1]>>

w_none == <<"n","o","n","e">>

w_default == <<"d","e","f","a","u","l","t">>

w_true == <<"t","r","u","e">>

w_false == <<"f","a","l","s","e">>

t_AUDIT_END == <<"#","#","#","#","#","#","A","U","D","I","T","_","E","N","D","#","#","#","#","#","#","\n">>

\* the text Auditor.Log builds for one call
FormatEntry(timestamp, sql, matchedKeywords, approved, action, connection) ==
    LET keywords == IF Len(matchedKeywords) > 0 THEN Join(matchedKeywords, <<",">>) ELSE w_none
        conn     == IF connection = <<>> THEN w_default ELSE connection
        header   == <<"A","U","D","I","T","_","T","I","M","E","=">> \o TimeText(timestamp) \o
                    <<"\n","A","U","D","I","T","_","C","O","N","N","E","C","T","I","O","N","=">> \o conn \o
                    <<"\n","A","U","D","I","T","_","K","E","Y","W","O","R","D","S","=">> \o keywords \o
                    <<"\n","A","U","D","I","T","_","A","P","P","R","O","V","E","D","=">> \o (IF approved THEN w_true ELSE w_false) \o
                    <<"\n","A","U","D","I","T","_","A","C","T","I","O","N","=">> \o action \o
                    <<"\n","A","U","D","I","T","_","S","Q","L","=","\n">>
    IN  header \o sql \o (IF ~HasSuffix(sql, NL) THEN NL ELSE <<>>) \o t_AUDIT_END

(***************************************************************************)
(* Bounds and inputs                                                       *)
(***************************************************************************)
MaxRequests == 1

MaxHandles == 3

\* latest second, counted from the creation of the oldest rotation file, at which a
\* rotation file is created
MaxClock == 1

\* stands for maxAuditLogBytes (10 << 20), scaled to the size of a few entries
MaxAuditLogBytes == 400

\* size of a rotation file left by an earlier run: one more entry crosses the cap
PreviousRunBytes == 300

n_db1 == <<"d","b","1">>

n_db2 == <<"d","b","2">>

n_nope == <<"n","o","p","e">>

\* the name -> DSN maps a configuration may give to NewExecutorPool
DsnOf(name) == <<"u","s","e","r","@">> \o name

\* oracle.connections of a configuration, in the order NewExecutorPool visits them
ConnectionConfigs == {<<n_db1>>, <<n_db1, n_db2>>}

s_select == w_select \o SP \o w_1

s_drop == w_DROP \o SP \o w_t

s_create == w_create \o SP \o w_t

s_multi == w_select \o SP \o w_1 \o SEMI \o NL \o w_drop \o SP \o w_t \o SEMI

f_script == w_drop \o SP \o w_t \o NL \o w_slash \o NL

\* an argument that the request does not carry (or a file that cannot be read)
NoArg == <<"(absent)">>

\* the databases that answer when the server starts: the requests of this model
\* address db1, so db1 is up or down and any other database is up
StartupOutcomes(order) == {SeqRange(order), SeqRange(order) \ {n_db1}}

SqlArgs == {NoArg, s_select, s_create, s_multi}

FileContents == {NoArg, <<>>, f_script}

ConnectionArgs == {NoArg, SP \o n_db1, n_nope}

\* security.danger_keywords / danger_keyword_match as written in a config file
KeywordConfigs == { [keywords |-> <<>>, match |-> <<>>],
                    [keywords |-> <<w_DROP \o SP>>, match |-> w_tokens] }

e_noListener == <<"O","R","A","-","1","2","5","4","1",":"," ","T","N","S",":","n","o"," ","l","i","s","t","e","n","e","r">>

e_invalidSql == <<"O","R","A","-","0","0","9","0","0",":"," ","i","n","v","a","l","i","d"," ","S","Q","L"," ","s","t","a","t","e","m","e","n","t">>

e_dbClosed == <<"s","q","l",":"," ","d","a","t","a","b","a","s","e"," ","i","s"," ","c","l","o","s","e","d">>

e_dialog == <<"d","i","a","l","o","g"," ","e","r","r","o","r">>

DriverErrors == {e_noListener, e_invalidSql}

Server == "srv"

Callers == {"c1", "c2"}

Procs == {Server} \cup Callers

NoHandle == 0

NoFile == 0 - 1

(***************************************************************************)
(* State                                                                   *)
(***************************************************************************)
VARIABLES
    config,        \* cfg.Security / cfg.Logging as loaded, and the Analyzer built from it
    names,         \* ExecutorPool.names
    executors,     \* ExecutorPool.executors: name -> handle
    failed,        \* ExecutorPool.failed: name -> DSN
    dsns,          \* ExecutorPool.dsns: name -> DSN
    poolClosed,    \* the maps were set to nil by ExecutorPool.Close
    openHandles,   \* Executors whose Close has not been called
    nextHandle,    \* identity of the next Executor that NewExecutor returns
    req,           \* per process: the request (Server) or Execute call (Callers) in progress
    lister,        \* ListConnectionsWithStatus in progress
    served,        \* requests read by Server.Run so far
    auditor,       \* Auditor.file, Auditor.currentSize; "none" when cfg.Logging.AuditLog is off
    files          \* the audit directory: file name (its creation second) -> bytes of an
                   \* earlier run, records appended by this run

poolVars == <<names, executors, failed, dsns, poolClosed, openHandles, nextHandle>>

auditVars == <<auditor, files>>

vars == <<config, names, executors, failed, dsns, poolClosed, openHandles, nextHandle,
          req, lister, served, auditor, files>>

Healthy == DOMAIN executors

Failed == DOMAIN failed

NoResponse == [kind |-> "none"]

NoAudit == [approved |-> FALSE, action |-> <<>>]

IdleReq ==
    [pc |-> "idle", id |-> 0, tool |-> "", sql |-> <<>>, connectionName |-> <<>>,
     displayConnection |-> <<>>, matchedKeywords |-> <<>>, isDangerous |-> FALSE, isDDL |-> FALSE,
     stmtType |-> <<>>, gate |-> FALSE, needsConfirmation |-> FALSE,
     confirmReturned |-> FALSE, approved |-> FALSE, confirmErr |-> NoErr,
     name |-> <<>>, ex |-> NoHandle, stmts |-> <<>>, sent |-> <<>>, executed |-> "none",
     err |-> NoErr, audit |-> NoAudit, logged |-> 0, toSend |-> NoResponse, responses |-> <<>>,
     analysis |-> <<>>, lock |-> "none"]

\* attempted and recovered record the NewExecutor calls of the RetryFailed in progress
IdleLister == [pc |-> "idle", out |-> <<>>, attempted |-> {}, recovered |-> {}]

toolError(message) == [kind |-> "toolResult", isError |-> TRUE, text |-> message]

toolResult == [kind |-> "toolResult", isError |-> FALSE, text |-> <<>>]

\* sendError leaving the matched keywords out of the error data
rpcError_withoutKeywords(code, dataCode, keywords) ==
    [kind |-> "rpcError", code |-> code, dataCode |-> dataCode, matched_keywords |-> <<>>]

rpcError(code, dataCode, keywords) ==
    [kind |-> "rpcError", code |-> code, dataCode |-> dataCode, matched_keywords |-> keywords]

(***************************************************************************)
(* Construction                                                            *)
(***************************************************************************)
\* NewExecutorPool: order is the map iteration order, up the names whose NewExecutor succeeds
NewExecutorPool(order, up) ==
    [names       |-> order,
     executors   |-> [n \in SeqRange(order) \cap up |-> CHOOSE i \in 1..Len(order) : order[i] = n],
     failed      |-> [n \in SeqRange(order) \ up |-> DsnOf(n)],
     dsns        |-> [n \in SeqRange(order) |-> DsnOf(n)],
     openHandles |-> {i \in 1..Len(order) : order[i] \in up},
     nextHandle  |-> Len(order) + 1]

\* a file as os.OpenFile creates it; pre is the size an earlier run left, readable
\* is whether os.Stat and os.OpenFile succeed on it
EmptyFile == [pre |-> 0, size |-> 0, recs |-> <<>>, readable |-> TRUE]

SetMax(S) == CHOOSE x \in S : \A y \in S : y <= x

\* the readings time.Now() can give: not before the creation second of the newest file
Now(fs) == IF DOMAIN fs = {} THEN {0} ELSE SetMax(DOMAIN fs)..MaxClock

\* Auditor.rotateOpen at clock reading now; outcome is what the file system answers
rotateOpen(a, fs, now, outcome) ==
    LET fs1 == IF now \in DOMAIN fs THEN fs ELSE (now :> EmptyFile) @@ fs IN
    IF outcome = "openFails" THEN [auditor |-> [a EXCEPT !.file = NoFile], files |-> fs, err |-> TRUE]
    ELSE IF outcome = "statFails" THEN [auditor |-> [a EXCEPT !.file = NoFile], files |-> fs1, err |-> TRUE]
    ELSE [auditor |-> [a EXCEPT !.file = now, !.currentSize = fs1[now].size], files |-> fs1, err |-> FALSE]

\* Auditor.openOrCreate taking the oldest file under the cap
openOrCreate_oldestUnderCap(a, fs, now) ==
    LET under == {f \in DOMAIN fs : fs[f].readable /\ fs[f].size < MaxAuditLogBytes}
        oldest == CHOOSE f \in under : \A g \in under : f <= g
    IN  IF under # {}
        THEN [auditor |-> [a EXCEPT !.file = oldest, !.currentSize = fs[oldest].size],
              files |-> fs, err |-> FALSE]
        ELSE rotateOpen(a, fs, now, "ok")

\* Auditor.openOrCreate: the files are visited newest name first; one that cannot be
\* stat'ed or opened is skipped
openOrCreate(a, fs, now) ==
    LET under == {f \in DOMAIN fs : fs[f].readable /\ fs[f].size < MaxAuditLogBytes} IN
    IF under # {}
    THEN [auditor |-> [a EXCEPT !.file = SetMax(under), !.currentSize = fs[SetMax(under)].size],
          files |-> fs, err |-> FALSE]
    ELSE rotateOpen(a, fs, now, "ok")

NoAuditor == [enabled |-> FALSE, file |-> NoFile, currentSize |-> 0]

\* NewServer: the auditor is created only when cfg.Logging.AuditLog is set
NewAuditor(fs, now) == openOrCreate([enabled |-> TRUE, file |-> NoFile, currentSize |-> 0], fs, now)

\* Auditor.Log
Log(a, fs, now, outcome, id, sql, matchedKeywords, approved, action, connection) ==
    LET entry == FormatEntry(now, sql, matchedKeywords, approved, action, connection)
        size == Len(entry)
        rec  == [req |-> id, sql |-> sql, keywords |-> matchedKeywords,
                 approved |-> approved, action |-> action, connection |-> connection,
                 size |-> size, entry |-> entry]
        write(a1, fs1) ==
            [auditor |-> [a1 EXCEPT !.currentSize = @ + size],
             files   |-> IF a1.file = NoFile THEN fs1
                         ELSE [fs1 EXCEPT ![a1.file].recs = Append(@, rec), ![a1.file].size = @ + size]]
    IN  IF a.currentSize + size >= MaxAuditLogBytes /\ a.currentSize > 0
        THEN write(rotateOpen(a, fs, now, outcome).auditor, rotateOpen(a, fs, now, outcome).files)
        ELSE write(a, fs)

ExistingFiles == { <<>>, (0 :> [pre |-> PreviousRunBytes, size |-> PreviousRunBytes, recs |-> <<>>, readable |-> TRUE]) }

Configs ==
    { [requireConfirmForDDL |-> d, auditLog |-> l, analyzer |-> NewAnalyzer(k.keywords, k.match)] :
        d \in BOOLEAN, l \in BOOLEAN, k \in KeywordConfigs }

InitPoolFrom(pool) ==
    /\ names = pool.names
    /\ executors = pool.executors
    /\ failed = pool.failed
    /\ dsns = pool.dsns
    /\ openHandles = pool.openHandles
    /\ nextHandle = pool.nextHandle
    /\ poolClosed = FALSE

Init ==
    /\ config \in Configs
    /\ \E order \in ConnectionConfigs : \E up \in StartupOutcomes(order) :
          InitPoolFrom(NewExecutorPool(order, up))
    /\ IF config.auditLog
       THEN \E fs \in ExistingFiles : \E now \in Now(fs) :
               auditor = NewAuditor(fs, now).auditor /\ files = NewAuditor(fs, now).files
       ELSE auditor = NoAuditor /\ files = <<>>
    /\ req = [p \in Procs |-> IdleReq]
    /\ lister = IdleLister
    /\ served = 0

(***************************************************************************)
(* Server.handleExecuteSQL / Server.handleExecuteSQLFile                   *)
(***************************************************************************)
\* the handler from its first line to the gate: argument checks, classification,
\* and the decision whether the confirmation collaborator is called
Receive(tool, arg, connArg) ==
    /\ req[Server].pc = "idle"
    /\ lister.pc = "idle"
    /\ ~poolClosed
    /\ served < MaxRequests
    /\ served' = served + 1
    /\ LET base  == [IdleReq EXCEPT !.id = served + 1, !.tool = tool]
           early == IF arg = NoArg
                    THEN (IF tool = "execute_sql" THEN t_missingSql ELSE t_cannotReadFile)
                    ELSE IF tool = "execute_sql_file" /\ arg = <<>> THEN t_fileEmpty
                    ELSE <<>>
           sql   == IF tool = "execute_sql_file" THEN stripTrailingSlashLine(arg) ELSE arg
           connectionName    == IF connArg = NoArg THEN <<>> ELSE TrimSpace(connArg)
           displayConnection == IF connectionName = <<>> /\ Len(names) = 1
                                THEN names[1] ELSE connectionName
           analysis == Analyze(config.analyzer, sql)
           needs    == needsConfirmation(analysis, config.requireConfirmForDDL)
       IN  req' = [req EXCEPT ![Server] =
                IF early # <<>>
                THEN [base EXCEPT !.responses = <<toolError(early)>>]
                ELSE [base EXCEPT !.sql = sql,
                                  !.analysis = analysis,
                                  !.connectionName = connectionName,
                                  !.displayConnection = displayConnection,
                                  !.matchedKeywords = analysis.MatchedKeywords,
                                  !.isDangerous = analysis.IsDangerous,
                                  !.isDDL = analysis.IsDDL,
                                  !.stmtType = GetStatementType(sql),
                                  !.gate = TRUE,
                                  !.needsConfirmation = needs,
                                  !.pc = IF needs THEN "confirm" ELSE "resolve"]]
    /\ UNCHANGED <<config, poolVars, lister, auditVars>>

\* afterConfirm with the two tests in the wrong order: approval is looked at first
afterConfirm_approvedFirst(r, approved, err) ==
    LET r1 == [r EXCEPT !.confirmReturned = TRUE, !.approved = approved, !.confirmErr = err] IN
    IF approved
    THEN [r1 EXCEPT !.pc = "resolve"]
    ELSE IF err # NoErr
    THEN [r1 EXCEPT !.pc = "audit",
                    !.audit = [approved |-> FALSE, action |-> w_CONFIRM_ERROR \o err],
                    !.toSend = toolError(t_confirmDialogError \o err)]
    ELSE [r1 EXCEPT !.pc = "audit",
                    !.audit = [approved |-> FALSE, action |-> w_USER_REJECTED],
                    !.toSend = rpcError(ErrCodeUserRejected, w_USER_REJECTED, r.matchedKeywords)]

\* the handler after s.confirmer.Confirm has returned (approved, err)
afterConfirm(r, approved, err) ==
    LET r1 == [r EXCEPT !.confirmReturned = TRUE, !.approved = approved, !.confirmErr = err] IN
    IF err # NoErr
    THEN [r1 EXCEPT !.pc = "audit",
                    !.audit = [approved |-> FALSE, action |-> w_CONFIRM_ERROR \o err],
                    !.toSend = toolError(t_confirmDialogError \o err)]
    ELSE IF ~approved
    THEN [r1 EXCEPT !.pc = "audit",
                    !.audit = [approved |-> FALSE, action |-> w_USER_REJECTED],
                    !.toSend = rpcError(ErrCodeUserRejected, w_USER_REJECTED, r.matchedKeywords)]
    ELSE [r1 EXCEPT !.pc = "resolve"]

ConfirmReturn(approved, err) ==
    /\ req[Server].pc = "confirm"
    /\ req' = [req EXCEPT ![Server] = afterConfirm(@, approved, err)]
    /\ UNCHANGED <<config, poolVars, lister, served, auditVars>>

\* the builds of the confirmation collaborator
Platforms == {"windows", "darwin"}

\* what can become of the dialog: the user clicks Execute or Cancel, a temporary
\* file of the dialog cannot be written, the dialog process cannot be started,
\* it ends abnormally, or it ends normally without a result
DialogFailures(os) ==
    IF os = "windows" THEN {"cannotWrite", "cannotStart", "crashed", "noResult"}
    ELSE {"cannotStart", "crashed", "noResult"}

DialogOutcomes(os) == {"execute", "cancel"} \cup DialogFailures(os)

e_cannotWrite == <<"c","o","n","f","i","r","m",":"," ","c","a","n","n","o","t"," ","w","r","i","t","e"," ","H","T","M","L"," ","t","e","m","p"," ","f","i","l","e">>

\* Confirmer.Confirm of the windows build: the pair (approved, err) returned for
\* an outcome of the dialog
ConfirmWindows(outcome) ==
    CASE outcome = "cannotWrite" -> [approved |-> FALSE, err |-> e_cannotWrite]
      [] outcome = "cannotStart" -> [approved |-> FALSE, err |-> NoErr]
      [] outcome = "crashed"     -> [approved |-> FALSE, err |-> NoErr]
      [] outcome = "noResult"    -> [approved |-> FALSE, err |-> NoErr]
      [] outcome = "cancel"      -> [approved |-> FALSE, err |-> NoErr]
      [] outcome = "execute"     -> [approved |-> TRUE, err |-> NoErr]

\* Confirmer.Confirm of the darwin build. Cancel is osascript's exit code 1; an
\* abnormal end is any other exit code or a signal.
ConfirmDarwin(outcome) ==
    CASE outcome = "cannotStart" -> [approved |-> FALSE, err |-> e_dialog]
      [] outcome = "crashed"     -> [approved |-> FALSE, err |-> e_dialog]
      [] outcome = "cancel"      -> [approved |-> FALSE, err |-> NoErr]
      [] outcome = "noResult"    -> [approved |-> FALSE, err |-> NoErr]
      [] outcome = "execute"     -> [approved |-> TRUE, err |-> NoErr]

Confirm(os, outcome) ==
    IF os = "windows" THEN ConfirmWindows(outcome) ELSE ConfirmDarwin(outcome)

\* the server's call of the shipped collaborator
ConfirmDialog(os, outcome) ==
    ConfirmReturn(Confirm(os, outcome).approved, Confirm(os, outcome).err)

\* afterPoolExecute answering a failed execution without the audit call
afterPoolExecute_unauditedError(r, err) ==
    IF err # NoErr
    THEN [r EXCEPT !.pc = "respond",
                   !.toSend = toolError(t_sqlExecutionFailed \o err)]
    ELSE [r EXCEPT !.pc = "audit",
                   !.audit = [approved |-> TRUE, action |-> w_SUCCESS],
                   !.toSend = toolResult]

\* the handler after s.executorPool.Execute has returned (result, err)
afterPoolExecute(r, err) ==
    IF err # NoErr
    THEN [r EXCEPT !.pc = "audit",
                   !.audit = [approved |-> FALSE, action |-> w_EXECUTION_ERROR \o err],
                   !.toSend = toolError(t_sqlExecutionFailed \o err)]
    ELSE [r EXCEPT !.pc = "audit",
                   !.audit = [approved |-> TRUE, action |-> w_SUCCESS],
                   !.toSend = toolResult]

\* ExecutorPool.Execute returns (result, err) to the process that called it
returnFromExecute(p, r, err) ==
    LET r1 == [r EXCEPT !.err = err, !.executed = IF err = NoErr THEN "ok" ELSE "error",
                        !.ex = NoHandle, !.stmts = <<>>] IN
    IF p = Server THEN afterPoolExecute(r1, err) ELSE [r1 EXCEPT !.pc = "idle"]

\* some caller is between a.mu.Lock() and the deferred a.mu.Unlock() of Auditor.Log
AuditLocked == \E q \in Procs : req[q].pc = "log"

\* s.logAudit: Auditor.Log when an auditor exists
AuditStep(now, outcome) ==
    /\ req[Server].pc = "audit"
    /\ ~AuditLocked
    /\ now \in Now(files)
    /\ LET r == req[Server]
           l == Log(auditor, files, now, outcome, r.id, r.sql, r.matchedKeywords,
                    r.audit.approved, r.audit.action, r.displayConnection)
       IN  IF auditor.enabled
           THEN auditor' = l.auditor /\ files' = l.files
           ELSE UNCHANGED <<auditor, files>>
    /\ req' = [req EXCEPT ![Server].pc = "respond", ![Server].logged = @ + 1]
    /\ UNCHANGED <<config, poolVars, lister, served>>

\* sendToolError / sendError / sendToolResult, the last statement of the handler
Respond ==
    /\ req[Server].pc = "respond"
    /\ req' = [req EXCEPT ![Server].pc = "idle",
                          ![Server].responses = Append(@, req[Server].toSend)]
    /\ UNCHANGED <<config, poolVars, lister, served, auditVars>>

(***************************************************************************)
(* ExecutorPool                                                            *)
(***************************************************************************)
\* Execute, first read-locked section: the default name
\* Execute defaulting an empty name to the first configured connection
Resolve_firstOfSeveral(p) ==
    /\ req[p].pc = "resolve"
    /\ LET r    == req[p]
           name == IF r.connectionName = <<>> /\ Len(names) >= 1 THEN names[1] ELSE r.connectionName
       IN  req' = [req EXCEPT ![p] =
                IF name = <<>>
                THEN returnFromExecute(p, r, t_nameRequired)
                ELSE [r EXCEPT !.name = name, !.pc = "lookup"]]
    /\ UNCHANGED <<config, poolVars, lister, served, auditVars>>

Resolve(p) ==
    /\ req[p].pc = "resolve"
    /\ LET r    == req[p]
           name == IF r.connectionName = <<>> /\ Len(names) = 1 THEN names[1] ELSE r.connectionName
       IN  req' = [req EXCEPT ![p] =
                IF name = <<>>
                THEN returnFromExecute(p, r, t_nameRequired)
                ELSE [r EXCEPT !.name = name, !.pc = "lookup"]]
    /\ UNCHANGED <<config, poolVars, lister, served, auditVars>>

\* p.mu.Lock() can return to process p: no other process holds the pool's RWMutex
PoolLockFree(p) == \A q \in Procs \ {p} : req[q].lock = "none"

\* Lookup with the RUnlock deferred to the return of Execute
Lookup_unlockDeferred(p) ==
    /\ req[p].pc = "lookup"
    /\ LET r == req[p] IN
       req' = [req EXCEPT ![p] =
                IF r.name \notin DOMAIN executors
                THEN returnFromExecute(p, r, IF r.name \in DOMAIN failed
                                             THEN errUnavailable(r.name)
                                             ELSE errUnknownConnection(r.name))
                ELSE IF statementsOf(r.sql) = <<>>
                THEN returnFromExecute(p, r, NoErr)
                ELSE [r EXCEPT !.ex = executors[r.name], !.stmts = statementsOf(r.sql),
                                !.lock = "r", !.pc = "run"]]
    /\ UNCHANGED <<config, poolVars, lister, served, auditVars>>

\* Execute, second read-locked section: the handle of the name, RUnlock; then
\* Executor.Execute up to its statement loop
Lookup(p) ==
    /\ req[p].pc = "lookup"
    /\ LET r == req[p] IN
       req' = [req EXCEPT ![p] =
                IF r.name \notin DOMAIN executors
                THEN returnFromExecute(p, r, IF r.name \in DOMAIN failed
                                             THEN errUnavailable(r.name)
                                             ELSE errUnknownConnection(r.name))
                ELSE IF statementsOf(r.sql) = <<>>
                THEN returnFromExecute(p, r, NoErr)
                ELSE [r EXCEPT !.ex = executors[r.name], !.stmts = statementsOf(r.sql),
                                !.lock = "none", !.pc = "run"]]
    /\ UNCHANGED <<config, poolVars, lister, served, auditVars>>

\* one round of the statement loop of Executor.Execute, outside every lock;
\* driverErr is the driver's answer (NoErr for success)
RunStatement(p, driverErr) ==
    /\ req[p].pc = "run"
    /\ LET r      == req[p]
           st     == Head(r.stmts)
           isOpen == r.ex \in openHandles
           dErr   == IF isOpen THEN driverErr ELSE e_dbClosed
           r1     == IF isOpen THEN [r EXCEPT !.sent = Append(@, [handle |-> r.ex, stmt |-> st])] ELSE r
       IN  req' = [req EXCEPT ![p] =
                IF dErr = NoErr
                THEN (IF Len(r.stmts) > 1
                      THEN [r1 EXCEPT !.stmts = Tail(@)]
                      ELSE returnFromExecute(p, [r1 EXCEPT !.stmts = <<>>], NoErr))
                ELSE IF isConnectionError(wrapDriverError(st, dErr))
                THEN [r1 EXCEPT !.err = wrapDriverError(st, dErr), !.pc = "mark"]
                ELSE returnFromExecute(p, r1, wrapDriverError(st, dErr))]
    /\ UNCHANGED <<config, poolVars, lister, served, auditVars>>

\* markConnectionFailed that forgets to store the DSN for the retry
markConnectionFailed_noRetryEntry(name, ex) ==
    IF poolClosed \/ name \notin DOMAIN executors
    THEN UNCHANGED <<executors, failed, openHandles>>
    ELSE /\ openHandles' = openHandles \ {ex}
         /\ executors' = [n \in DOMAIN executors \ {name} |-> executors[n]]
         /\ failed' = failed

\* markConnectionFailed(name, ex), under the write lock
markConnectionFailed(name, ex) ==
    IF poolClosed \/ name \notin DOMAIN executors
    THEN UNCHANGED <<executors, failed, openHandles>>
    ELSE /\ openHandles' = openHandles \ {ex}
         /\ executors' = [n \in DOMAIN executors \ {name} |-> executors[n]]
         /\ failed' = IF name \in DOMAIN dsns
                      THEN [n \in DOMAIN failed \cup {name} |-> dsns[n]]
                      ELSE failed

Mark(p) ==
    /\ req[p].pc = "mark"
    /\ PoolLockFree(p)
    /\ markConnectionFailed(req[p].name, req[p].ex)
    /\ req' = [req EXCEPT ![p] = returnFromExecute(p, @, @.err)]
    /\ UNCHANGED <<config, names, dsns, poolClosed, nextHandle, lister, served, auditVars>>

\* position of name n in the configured order, to number the handles opened in one call
Rank(n, S) == Cardinality({m \in S : \E i, j \in 1..Len(names) : names[i] = m /\ names[j] = n /\ i < j})

\* RetryFailed that leaves a recovered name in the failed map
RetryFailed_keepsFailedEntry(recovered) ==
    /\ executors' = [n \in DOMAIN executors \cup recovered |->
                        IF n \in recovered THEN nextHandle + Rank(n, recovered) ELSE executors[n]]
    /\ failed' = failed
    /\ openHandles' = openHandles \cup {nextHandle + Rank(n, recovered) : n \in recovered}
    /\ nextHandle' = nextHandle + Cardinality(recovered)

\* RetryFailed, under the write lock; recovered are the names whose NewExecutor succeeds now
RetryFailed(recovered) ==
    /\ executors' = [n \in DOMAIN executors \cup recovered |->
                        IF n \in recovered THEN nextHandle + Rank(n, recovered) ELSE executors[n]]
    /\ failed' = [n \in DOMAIN failed \ recovered |-> failed[n]]
    /\ openHandles' = openHandles \cup {nextHandle + Rank(n, recovered) : n \in recovered}
    /\ nextHandle' = nextHandle + Cardinality(recovered)

\* ListConnectionsWithStatus, first half
ListRetry(recovered) ==
    /\ lister.pc = "idle"
    /\ PoolLockFree("lister")
    /\ recovered \subseteq DOMAIN failed
    /\ nextHandle + Cardinality(recovered) <= MaxHandles + 1
    /\ RetryFailed(recovered)
    /\ lister' = [pc |-> "read", out |-> <<>>, attempted |-> DOMAIN failed, recovered |-> recovered]
    /\ UNCHANGED <<config, names, dsns, poolClosed, req, auditVars>>

\* ListConnectionsWithStatus, second half, under the read lock
ListRead ==
    /\ lister.pc = "read"
    /\ lister' = [IdleLister EXCEPT
                  !.out = [i \in 1..Len(names) |->
                             [Name |-> names[i], Available |-> names[i] \in DOMAIN executors]]]
    /\ UNCHANGED <<config, poolVars, req, served, auditVars>>

\* ExecutorPool.Close, under the write lock
Close ==
    /\ ~poolClosed
    /\ PoolLockFree("closer")
    /\ openHandles' = openHandles \ {executors[n] : n \in DOMAIN executors}
    /\ executors' = <<>>
    /\ failed' = <<>>
    /\ dsns' = <<>>
    /\ names' = <<>>
    /\ poolClosed' = TRUE
    /\ UNCHANGED <<config, nextHandle, req, lister, auditVars>>

(***************************************************************************)
(* The server: Server.Run handles one request at a time                    *)
(***************************************************************************)
\* tools/call list_connections
HandleListConnections(recovered) ==
    /\ req[Server].pc = "idle"
    /\ ~poolClosed
    /\ served < MaxRequests
    /\ served' = served + 1
    /\ ListRetry(recovered)

\* Server.Close when Run returns
ServerClose ==
    /\ req[Server].pc = "idle"
    /\ lister.pc = "idle"
    /\ Close
    /\ UNCHANGED served

\* the readings of time.Now() the server's audit call is given: one in the second
\* in which the newest rotation file was created and one in the latest second
ServerNow == {now \in Now(files) : now = MaxClock \/ \A t \in Now(files) : now <= t}

Next ==
    \/ \E arg \in SqlArgs, c \in ConnectionArgs : Receive("execute_sql", arg, c)
    \/ \E arg \in FileContents : Receive("execute_sql_file", arg, NoArg)
    \/ \E approved \in BOOLEAN, err \in {NoErr, e_dialog} : ConfirmReturn(approved, err)
    \/ \E os \in Platforms : \E o \in DialogOutcomes(os) : ConfirmDialog(os, o)
    \/ Resolve(Server)
    \/ Lookup(Server)
    \/ \E e \in DriverErrors \cup {NoErr} : RunStatement(Server, e)
    \/ Mark(Server)
    \/ \E now \in ServerNow, o \in {"ok", "openFails"} : AuditStep(now, o)
    \/ Respond
    \/ \E recovered \in SUBSET DOMAIN failed : HandleListConnections(recovered)
    \/ ListRead
    \/ ServerClose

Spec == Init /\ [][Next]_vars

(***************************************************************************)
(* The pool under concurrent callers: ExecutorPool guards its maps with a  *)
(* RWMutex, and Execute runs the statement outside the lock                *)
(***************************************************************************)
CallerConnections(c) == IF c = "c1" THEN {<<>>, n_db1, n_nope} ELSE {n_db1}

CallerSql == {s_select}

DefaultConfig == [requireConfirmForDDL |-> TRUE, auditLog |-> FALSE, analyzer |-> NewAnalyzer(<<>>, <<>>)]

InitPool ==
    /\ config = DefaultConfig
    /\ \E order \in ConnectionConfigs : \E up \in SUBSET SeqRange(order) :
          InitPoolFrom(NewExecutorPool(order, up))
    /\ auditor = NoAuditor
    /\ files = <<>>
    /\ req = [p \in Procs |-> IdleReq]
    /\ lister = IdleLister
    /\ served = 0

\* a goroutine calls ExecutorPool.Execute(ctx, connectionName, sqlText, statementType)
CallExecute(c, connectionName, sqlText) ==
    /\ req[c].pc = "idle"
    /\ req' = [req EXCEPT ![c] = [IdleReq EXCEPT !.tool = "Execute", !.sql = sqlText,
                                                 !.connectionName = connectionName,
                                                 !.pc = "resolve"]]
    /\ UNCHANGED <<config, poolVars, lister, served, auditVars>>

ListConnectionsWithStatus(recovered) ==
    /\ ListRetry(recovered)
    /\ UNCHANGED served

PoolClose ==
    /\ Close
    /\ UNCHANGED served

NextPool ==
    \/ \E c \in Callers : \E n \in CallerConnections(c), q \in CallerSql : CallExecute(c, n, q)
    \/ \E c \in Callers : Resolve(c)
    \/ \E c \in Callers : Lookup(c)
    \/ \E c \in Callers, e \in DriverErrors \cup {NoErr} : RunStatement(c, e)
    \/ \E c \in Callers : Mark(c)
    \/ \E recovered \in SUBSET DOMAIN failed : ListConnectionsWithStatus(recovered)
    \/ ListRead
    \/ PoolClose

SpecPool == InitPool /\ [][NextPool]_vars

(***************************************************************************)
(* The analyzer and the statement splitter over a range of SQL texts: the  *)
(* handler classifies one text and hands it to the executor                *)
(***************************************************************************)
MaxPieces == 3

\* danger_keywords / danger_keyword_match of the configuration
AnalyzerConfigs ==
    LET kws == <<<<"D","R","O","P"," ">>, <<"a","l","t","e","r"," ","s","y","s","t","e","m">>, <<"d","r","o","p">>>> IN
    { [requireConfirmForDDL |-> FALSE, auditLog |-> FALSE, analyzer |-> NewAnalyzer(kws, w_tokens)],
      [requireConfirmForDDL |-> FALSE, auditLog |-> FALSE, analyzer |-> NewAnalyzer(kws, w_whole_text)],
      [requireConfirmForDDL |-> FALSE, auditLog |-> FALSE, analyzer |-> NewAnalyzer(<<>>, <<>>)] }

\* texts made of up to MaxPieces lexical pieces
PieceTexts ==
    LET Pieces == {w_drop, QUOTE, <<"-","-">>, NL, <<"/","*">>, <<"*","/">>, SP, <<"x">>, SEMI}
    IN  {Join(ps, <<>>) : ps \in UNION {[1..n -> Pieces] : n \in 0..MaxPieces}}

\* CREATE [OR REPLACE] PROCEDURE / FUNCTION / PACKAGE ... END texts
CreationTexts ==
    LET heads   == {<<"c","r","e","a","t","e"," ">>, <<"C","R","E","A","T","E"," ","O","R"," ","R","E","P","L","A","C","E"," ">>, <<"-","-"," ","c","\n","c","r","e","a","t","e"," ">>}
        kinds   == {<<"p","r","o","c","e","d","u","r","e"," ","p">>, <<"F","U","N","C","T","I","O","N"," ","f">>, <<"p","a","c","k","a","g","e"," ","k">>}
        befores == {SP, NL}
        afters  == {SEMI, <<" ","f",";">>}
    IN  {h \o k \o <<" ","a","s"," ","b","e","g","i","n"," ","r","e","t","u","r","n"," ","x",";">> \o b \o w_end \o a :
            h \in heads, k \in kinds, b \in befores, a \in afters}

\* anonymous blocks BEGIN ... END; and DECLARE ... BEGIN ... END;
BlockTexts ==
    LET starts  == {<<"B","E","G","I","N">>, <<"d","e","c","l","a","r","e"," ","n"," ","n","u","m","b","e","r",";"," ","b","e","g","i","n">>}
        befores == {SP, NL}
    IN  {st \o <<" ","N","U","L","L",";">> \o b \o <<"E","N","D",";">> : st \in starts, b \in befores}

\* texts of the analyzer tests and variations of them
ExampleTexts ==
    { <<"S","E","L","E","C","T"," ","'","d","r","o","p"," ","t","a","b","l","e","'"," ","F","R","O","M"," ","d","u","a","l">>,
      <<"S","E","L","E","C","T"," ","*"," ","F","R","O","M"," ","u","s","e","r","s"," ","-","-"," ","d","r","o","p"," ","t","a","b","l","e">>,
      <<"s","e","l","e","c","t"," ","'","i","t","'","'","s"," ","d","r","o","p","'"," ","f","r","o","m"," ","d","u","a","l">>,
      <<"A","L","T","E","R"," ","S","Y","S","T","E","M"," ","S","E","T"," ","x"," ","="," ","'","v","'">>,
      <<"A","L","T","E","R","\n","S","Y","S","T","E","M"," ","S","E","T"," ","x"," ","="," ","1">>,
      <<"s","e","l","e","c","t"," ","'","a","l","t","e","r"," ","s","y","s","t","e","m","'"," ","f","r","o","m"," ","d","u","a","l">>,
      <<"c","r","e","a","t","e","d","_","a","t">>,
      <<"C","R","E","A","T","E"," ","T","A","B","L","E"," ","t"," ","(","i","d"," ","N","U","M","B","E","R",")">>,
      <<"A","L","T","E","R"," ","S","E","S","S","I","O","N"," ","S","E","T"," ","x"," ","="," ","'","s","y","s","t","e","m","'">>,
      <<"B","E","G","I","N"," ","N","U","L","L",";"," ","E","N","D",";">>,
      <<"s","e","l","e","c","t"," ","'","i","t","'","'","s",";","x","'"," ","f","r","o","m"," ","d","u","a","l">>,
      <<"c","r","e","a","t","e"," ","f","u","n","c","t","i","o","n","\n","f"," ","a","s"," ","b","e","g","i","n"," ","r","e","t","u","r","n"," ","x",";"," ","e","n","d",";">>,
      <<"s","e","l","e","c","t"," ","'","a",";","\n","b","'"," ","f","r","o","m"," ","d","u","a","l">> }

AnalyzerTexts == PieceTexts \cup CreationTexts \cup BlockTexts \cup ExampleTexts

InitAnalyzer ==
    /\ config \in AnalyzerConfigs
    /\ InitPoolFrom(NewExecutorPool(<<n_db1>>, {n_db1}))
    /\ auditor = NoAuditor
    /\ files = <<>>
    /\ req = [p \in Procs |-> IdleReq]
    /\ lister = IdleLister
    /\ served = 0

NextAnalyzer ==
    \/ \E text \in AnalyzerTexts : Receive("execute_sql", text, NoArg)
    \/ ConfirmReturn(TRUE, NoErr)
    \/ Resolve(Server)
    \/ Lookup(Server)

SpecAnalyzer == InitAnalyzer /\ [][NextAnalyzer]_vars

(***************************************************************************)
(* The Auditor on its own: Log calls by concurrent callers, over the       *)
(* audit directories a start may find                                      *)
(***************************************************************************)
MaxLogCalls == 2

\* the arguments of a Log call
AuditCalls ==
    { [sql |-> s_select, keywords |-> <<>>, approved |-> TRUE, action |-> w_SUCCESS, connection |-> n_db1],
      [sql |-> s_multi, keywords |-> <<w_drop>>, approved |-> FALSE, action |-> w_USER_REJECTED, connection |-> <<>>],
      [sql |-> <<"s","e","l","e","c","t"," ","1","\n","#","#","#","#","#","#","A","U","D","I","T","_","E","N","D","#","#","#","#","#","#","\n","A","U","D","I","T","_","T","I","M","E","=","T","0">>,
       keywords |-> <<>>, approved |-> TRUE, action |-> w_SUCCESS, connection |-> n_db1] }

\* the rotation files an earlier run may have left: name (creation second) -> file
AuditDirs ==
    LET left(n, ok) == [pre |-> n, size |-> n, recs |-> <<>>, readable |-> ok] IN
    { <<>>,
      (0 :> left(PreviousRunBytes, TRUE)),
      (0 :> left(MaxAuditLogBytes, TRUE)),
      (0 :> left(PreviousRunBytes, TRUE)) @@ (1 :> left(MaxAuditLogBytes, TRUE)),
      (0 :> left(PreviousRunBytes, TRUE)) @@ (1 :> left(PreviousRunBytes - 1, TRUE)),
      (0 :> left(PreviousRunBytes, TRUE)) @@ (1 :> left(PreviousRunBytes - 1, FALSE)) }

\* NewAuditor succeeds: the file it opens can be opened
InitAudit ==
    /\ config = [DefaultConfig EXCEPT !.auditLog = TRUE]
    /\ InitPoolFrom(NewExecutorPool(<<n_db1>>, {n_db1}))
    /\ \E fs \in AuditDirs : \E now \in Now(fs) :
          /\ now \in DOMAIN fs => fs[now].readable
          /\ auditor = NewAuditor(fs, now).auditor
          /\ files = NewAuditor(fs, now).files
    /\ req = [p \in Procs |-> IdleReq]
    /\ lister = IdleLister
    /\ served = 0

\* Log calls made so far, those in progress included
LogCalls == Cardinality({q \in Procs : req[q].pc = "log"}) + req["c1"].logged + req["c2"].logged

\* the k-th Log call of caller p
CallId(p, k) == (IF p = "c1" THEN 10 ELSE 20) + k

\* a.mu.Lock() returns to caller p, whose call has the arguments c
LogLock(p, c) ==
    /\ req[p].pc = "idle"
    /\ LogCalls < MaxLogCalls
    /\ ~AuditLocked
    /\ req' = [req EXCEPT ![p] = [@ EXCEPT !.pc = "log", !.id = CallId(p, req[p].logged + 1),
                                            !.sql = c.sql, !.matchedKeywords = c.keywords,
                                            !.audit = [approved |-> c.approved, action |-> c.action],
                                            !.displayConnection = c.connection]]
    /\ UNCHANGED <<config, poolVars, lister, served, auditVars>>

\* the body of Log up to the deferred Unlock
LogBody(p, now, outcome) ==
    /\ req[p].pc = "log"
    /\ now \in Now(files)
    /\ LET r == req[p]
           l == Log(auditor, files, now, outcome, r.id, r.sql, r.matchedKeywords,
                    r.audit.approved, r.audit.action, r.displayConnection)
       IN  auditor' = l.auditor /\ files' = l.files
    /\ req' = [req EXCEPT ![p].pc = "idle", ![p].logged = @ + 1]
    /\ UNCHANGED <<config, poolVars, lister, served>>

NextAudit ==
    \/ \E p \in Callers : \E c \in AuditCalls : LogLock(p, c)
    \/ \E p \in Callers : \E now \in 0..MaxClock : \E outcome \in {"ok", "openFails", "statFails"} :
          LogBody(p, now, outcome)

SpecAudit == InitAudit /\ [][NextAudit]_vars


(***************************************************************************)
(* The components side by side: a request of the server, a caller of the   *)
(* pool, a listing and a caller of the auditor, to see who waits for whom   *)
(***************************************************************************)
InitWaits ==
    /\ config = [DefaultConfig EXCEPT !.auditLog = TRUE]
    /\ InitPoolFrom(NewExecutorPool(<<n_db1>>, {n_db1}))
    /\ auditor = NewAuditor(<<>>, 0).auditor
    /\ files = NewAuditor(<<>>, 0).files
    /\ req = [p \in Procs |-> IdleReq]
    /\ lister = IdleLister
    /\ served = 0

NextWaits ==
    \/ Receive("execute_sql", s_drop, NoArg)
    \/ \E approved \in BOOLEAN : ConfirmReturn(approved, NoErr)
    \/ \E p \in {Server, "c1"} : Resolve(p)
    \/ \E p \in {Server, "c1"} : Lookup(p)
    \/ RunStatement(Server, NoErr)
    \/ \E e \in {e_noListener, NoErr} : RunStatement("c1", e)
    \/ Mark("c1")
    \/ AuditStep(0, "ok")
    \/ Respond
    \/ CallExecute("c1", n_db1, s_select)
    \/ \E recovered \in SUBSET DOMAIN failed : ListConnectionsWithStatus(recovered)
    \/ ListRead
    \/ LogLock("c2", [sql |-> s_select, keywords |-> <<>>, approved |-> TRUE,
                       action |-> w_SUCCESS, connection |-> n_db1])
    \/ LogBody("c2", 0, "ok")

SpecWaits == InitWaits /\ [][NextWaits]_vars

(***************************************************************************)
(* Properties                                                              *)
(***************************************************************************)
\* positions of the audit records that request id has in the audit files
AuditRecordsOf(id) ==
    {p \in UNION {{<<f, i>> : i \in 1..Len(files[f].recs)} : f \in DOMAIN files} :
        files[p[1]].recs[p[2]].req = id}

AuditRecord(p) == files[p[1]].recs[p[2]]

\* the collaborator has returned approved = true and no error
HumanApproved(r) == r.confirmReturned /\ r.approved /\ r.confirmErr = NoErr

\* ExecutorPool.Execute has been invoked for the request
ExecuteInvoked(r) == r.pc \in {"resolve", "lookup", "run", "mark"} \/ r.executed # "none"

\* the handler of the request has run to its end
Completed(r) == r.id > 0 /\ r.pc = "idle"

\* C1: for a request whose SQL requires confirmation, ExecutorPool.Execute is invoked
\* (and a statement reaches a database) only after the collaborator returned
\* approved = true with no error; after a rejection or a collaborator error it is
\* never invoked for that request.
C1_ExecuteOnlyAfterApproval ==
    LET r == req[Server] IN
    /\ (r.needsConfirmation /\ (ExecuteInvoked(r) \/ r.sent # <<>>)) => HumanApproved(r)
    /\ (r.confirmReturned /\ ~HumanApproved(r)) => (~ExecuteInvoked(r) /\ r.sent = <<>>)

C1_Witness ==
    LET r == req[Server] IN
    r.needsConfirmation /\ HumanApproved(r) /\ r.sent # <<>> /\ Completed(r)

LeadingVerbIsDDL(stmt) ==
    LET t == tokenize(stmt) IN Len(t) > 0 /\ t[1] \in SeqRange(ddlKeywords)

\* C2: with require_confirm_for_ddl set, no statement whose leading verb is a DDL verb
\* is sent to the database by a request that did not obtain human approval, whatever
\* its position in a multi-statement text.
C2_NoUnapprovedDDL ==
    LET r == req[Server] IN
    config.requireConfirmForDDL =>
        \A i \in 1..Len(r.sent) : LeadingVerbIsDDL(r.sent[i].stmt) => HumanApproved(r)

\* C3: the confirmation collaborator is invoked for a request exactly when
\* isDangerous OR (requireConfirmForDDL AND isDDL) holds for its classification; a DDL
\* statement under an empty danger-keyword list is not dangerous, is DDL, and is
\* confirmed when requireConfirmForDDL is set.
C3_ConfirmExactlyWhenRequired ==
    LET r == req[Server]
        invoked == r.pc = "confirm" \/ r.confirmReturned
    IN  /\ r.gate => (invoked <=> (r.isDangerous \/ (config.requireConfirmForDDL /\ r.isDDL)))
        /\ ~r.gate => ~invoked
        /\ (r.gate /\ r.sql = s_create /\ config.analyzer.dangerKeywords = <<>>)
              => (~r.isDangerous /\ r.isDDL /\ (config.requireConfirmForDDL => invoked))

C3_Witness ==
    LET r == req[Server] IN
    /\ r.gate /\ r.sql = s_create /\ config.analyzer.dangerKeywords = <<>>
    /\ config.requireConfirmForDDL /\ r.pc = "confirm"

\* the action tag the claim gives to the terminal outcome of a completed request
TagMatchesOutcome(r, action) ==
    IF r.confirmReturned /\ r.confirmErr # NoErr THEN HasPrefix(action, w_CONFIRM_ERROR)
    ELSE IF r.confirmReturned /\ ~r.approved THEN action = w_USER_REJECTED
    ELSE IF r.executed = "error" THEN HasPrefix(action, w_EXECUTION_ERROR)
    ELSE action = w_SUCCESS

\* C4: with audit logging enabled, every request that reaches the gate appends exactly
\* one audit record, whose action tag matches the terminal outcome of the request and
\* which carries the SQL text of the request.
C4_ExactlyOneAuditRecord ==
    LET r == req[Server] IN
    (config.auditLog /\ r.gate /\ Completed(r)) =>
        /\ Cardinality(AuditRecordsOf(r.id)) = 1
        /\ \A p \in AuditRecordsOf(r.id) :
              TagMatchesOutcome(r, AuditRecord(p).action) /\ AuditRecord(p).sql = r.sql

\* C5: a request that did not require confirmation, or that the human approved, is
\* audited with approved = true, whether its execution succeeds or ends in an
\* execution error; approved = false is recorded only for a rejected or errored
\* confirmation.
C5_ApprovedFlag ==
    LET r == req[Server] IN
    \A p \in AuditRecordsOf(r.id) :
        AuditRecord(p).approved <=> (~r.needsConfirmation \/ HumanApproved(r))

\* C6: a human rejection is audited as USER_REJECTED and answered with the rejection
\* error (code -32000, data.code USER_REJECTED, the matched keywords); a collaborator
\* error is audited as CONFIRM_ERROR and answered with a failure that is neither the
\* rejection error nor a success.  "Audited as" is the audit call of the handler and
\* every record that call leaves in the audit files.
C6_RejectionAndErrorDistinct ==
    LET r == req[Server]
        rejected == r.confirmReturned /\ r.confirmErr = NoErr /\ ~r.approved
        errored  == r.confirmReturned /\ r.confirmErr # NoErr
    IN  /\ (rejected /\ Completed(r)) =>
              /\ r.logged = 1 /\ r.audit.action = w_USER_REJECTED
              /\ \A p \in AuditRecordsOf(r.id) : AuditRecord(p).action = w_USER_REJECTED
              /\ r.responses = <<[kind |-> "rpcError", code |-> 0 - 32000,
                                   dataCode |-> w_USER_REJECTED,
                                   matched_keywords |-> r.matchedKeywords]>>
        /\ (errored /\ Completed(r)) =>
              /\ r.logged = 1 /\ HasPrefix(r.audit.action, w_CONFIRM_ERROR)
              /\ \A p \in AuditRecordsOf(r.id) : HasPrefix(AuditRecord(p).action, w_CONFIRM_ERROR)
              /\ Len(r.responses) = 1
              /\ r.responses[1].kind = "toolResult" /\ r.responses[1].isError

C6_Witness ==
    LET r == req[Server] IN
    /\ Completed(r) /\ r.confirmReturned /\ r.confirmErr = NoErr /\ ~r.approved
    /\ r.matchedKeywords # <<>>
    /\ AuditRecordsOf(r.id) # {}

\* C7: a request that names an unknown connection, or omits the name while several
\* connections are configured, is answered before any execution or audit attempt: no
\* audit record is appended for it.
C7_NoAuditForCallerError ==
    LET r == req[Server] IN
    (r.err = t_nameRequired \/ r.err = errUnknownConnection(r.name)) =>
        (AuditRecordsOf(r.id) = {} /\ r.logged = 0)

\* C8: within one request the steps are ordered classify, gate, execute, audit,
\* response: the audit call is made only once the confirmation outcome (and, when
\* executed, the execution outcome) is known, and exactly one response is sent, after
\* the audit call.
C8_StepOrder ==
    LET r == req[Server]
        outcomeKnown == (r.confirmReturned /\ ~HumanApproved(r)) \/ r.executed # "none"
    IN  /\ r.pc = "confirm" => (r.gate /\ ~r.confirmReturned /\ ~ExecuteInvoked(r))
        /\ ExecuteInvoked(r) => (r.gate /\ (r.needsConfirmation => r.confirmReturned))
        /\ r.logged \in {0, 1}
        /\ (r.logged = 1 \/ AuditRecordsOf(r.id) # {}) => (outcomeKnown /\ r.pc \in {"respond", "idle"})
        /\ Len(r.responses) <= 1
        /\ r.responses # <<>> => (r.pc = "idle" /\ (r.gate => r.logged = 1))
        /\ Completed(r) => Len(r.responses) = 1
        /\ r.pc \in {"audit", "respond"} => outcomeKnown

C8_Witness ==
    LET r == req[Server] IN
    Completed(r) /\ r.executed = "ok" /\ AuditRecordsOf(r.id) # {} /\ Len(r.responses) = 1

Partition ==
    /\ \A n \in SeqRange(names) : (n \in Healthy) # (n \in Failed)
    /\ Healthy \cup Failed \subseteq SeqRange(names)

\* C9 as claimed: after any sequence and interleaving of router operations, Close
\* included, the configured names are the ones fixed at construction and each is in
\* exactly one of Healthy and Failed.
C9_PartitionAlways ==
    [][names' = names /\ names' # <<>> /\ Partition']_vars

\* C9: after any sequence and interleaving of Execute, ListConnectionsWithStatus and
\* demotion, until the pool is closed, the configured names are the ones fixed at
\* construction and each is in exactly one of Healthy and Failed; Close empties the
\* name list and both maps.
C9_PartitionUntilClose ==
    /\ [](IF poolClosed THEN names = <<>> /\ Healthy = {} /\ Failed = {}
                        ELSE names # <<>> /\ Partition)
    /\ [][~poolClosed' => names' = names]_vars

C9_Witness ==
    /\ ~poolClosed
    /\ \E n \in Healthy : executors[n] > Len(names)
    /\ \E c \in Callers : req[c].pc = "mark"

\* the error text carries one of the connection-class signatures
CarriesSignature(err) ==
    LET lower == ToLower(err) IN
    \E k \in 1..Len(connectionSignatures) :
        \E i \in 1..(Len(lower) - Len(connectionSignatures[k]) + 1) :
            SubSeq(lower, i, i + Len(connectionSignatures[k]) - 1) = connectionSignatures[k]

\* C10: an execution error moves the targeted name from Healthy to Failed if and only
\* if its text carries a connection-class signature; any other execution error is
\* returned to the caller and leaves the Healthy/Failed partition unchanged.
C10_DemoteIffConnectionError ==
    [][ /\ \A n \in Healthy :
             (n \notin Healthy' /\ ~poolClosed') =>
                 /\ n \in Failed'
                 /\ \E p \in Procs : req[p].pc = "mark" /\ req'[p].pc # "mark"
                                     /\ req[p].name = n /\ CarriesSignature(req[p].err)
        /\ \A p \in Procs :
             /\ (req[p].pc = "run" /\ req'[p].pc = "mark") => CarriesSignature(req'[p].err)
             /\ (req[p].pc = "run" /\ req'[p].pc # "run" /\ req'[p].pc # "mark"
                   /\ req'[p].executed = "error") =>
                     (~CarriesSignature(req'[p].err) /\ UNCHANGED <<executors, failed>>)
             /\ (req[p].pc = "mark" /\ req'[p].pc # "mark") =>
                     /\ req'[p].executed = "error" /\ req'[p].err = req[p].err
                     /\ req[p].name \in Healthy =>
                            (req[p].name \notin Healthy' /\ req[p].name \in Failed')
      ]_vars

C10_Witness ==
    \E c \in Callers :
        /\ req[c].executed = "error" /\ CarriesSignature(req[c].err)
        /\ req[c].name \in Failed /\ req[c].sent # <<>>

\* C11: ListConnectionsWithStatus attempts to re-establish every name that is Failed
\* when it is called; a name whose attempt succeeds is Healthy (with an open handle)
\* and reported available when the call returns, a name whose attempt fails stays
\* Failed and is reported unavailable, and every configured name is reported exactly
\* once.
C11_RetryThenReport ==
    [][ /\ (lister.pc = "idle" /\ lister'.pc = "read") =>
            /\ lister'.attempted = Failed
            /\ lister'.recovered \subseteq Failed
            /\ \A n \in lister'.recovered :
                   n \in Healthy' /\ n \notin Failed' /\ executors'[n] \in openHandles'
            /\ \A n \in Failed \ lister'.recovered : n \in Failed' /\ n \notin Healthy'
            /\ \A n \in Healthy : n \in Healthy' /\ executors'[n] = executors[n]
        /\ (lister.pc = "read" /\ lister'.pc = "idle") =>
            /\ Len(lister'.out) = Len(names)
            /\ \A i, j \in 1..Len(names) : i # j => names[i] # names[j]
            /\ \A i \in 1..Len(names) :
                   /\ lister'.out[i].Name = names[i]
                   /\ names[i] \in lister.recovered =>
                          (lister'.out[i].Available /\ names[i] \in Healthy')
                   /\ names[i] \in lister.attempted \ lister.recovered =>
                          (~lister'.out[i].Available /\ names[i] \in Failed')
                   /\ lister'.out[i].Available <=> names[i] \in Healthy'
      ]_vars

C11_Witness ==
    /\ lister.pc = "idle" /\ Len(lister.out) = 2
    /\ \E i \in 1..2 : lister.out[i].Available /\ executors[lister.out[i].Name] > Len(names)
    /\ \A i \in 1..2 : lister.out[i].Available

\* C12: Execute resolves the connection name: an empty name with exactly one
\* configured connection uses that connection; an empty name with several fails with
\* the name-required error; a Healthy name delegates to its handle; a Failed name fails
\* with the unavailable error; a name that is in neither map (never configured) fails
\* with the unknown-connection error.  In every failing case no statement is sent.
C12_NameResolution ==
    [][ \A p \in Procs :
          LET r == req[p]
              q == req'[p]
              failedWith(e) == q.executed = "error" /\ q.err = e /\ q.sent = <<>>
                               /\ q.pc \notin {"lookup", "run", "mark"}
                               /\ UNCHANGED <<executors, failed, openHandles>>
          IN  /\ (r.pc = "resolve" /\ q.pc # "resolve") =>
                   /\ (r.connectionName = <<>> /\ Len(names) = 1) =>
                          (q.pc = "lookup" /\ q.name = names[1])
                   /\ (r.connectionName = <<>> /\ Len(names) > 1) => failedWith(t_nameRequired)
                   /\ r.connectionName # <<>> => (q.pc = "lookup" /\ q.name = r.connectionName)
              /\ (r.pc = "lookup" /\ q.pc # "lookup") =>
                   /\ r.name \in Healthy =>
                          \/ q.pc = "run" /\ q.ex = executors[r.name] /\ q.err = NoErr
                          \/ q.executed = "ok" /\ q.sent = <<>>
                   /\ r.name \in Failed => failedWith(errUnavailable(r.name))
                   /\ (r.name \notin Healthy /\ r.name \notin Failed) =>
                          failedWith(errUnknownConnection(r.name))
      ]_vars

C12_Witness ==
    /\ ~poolClosed
    /\ req["c1"].executed = "error" /\ req["c1"].err = errUnknownConnection(n_nope)
    /\ req["c2"].executed = "error" /\ req["c2"].err = errUnavailable(n_db1)
    /\ n_db1 \in Failed

\* the text as the SQL lexical rules read it: every character of a string literal
\* ('' is an escaped quote, an unclosed literal runs to the end), of a line comment
\* and of a closed block comment is replaced by "#"; this is the yardstick of the
\* claims about literals and comments, not a function of the program
RECURSIVE OutsideFrom(_, _)
OutsideFrom(s, mode) ==
    LET rest(n) == SubSeq(s, n + 1, Len(s))
        hash(n) == [i \in 1..n |-> "#"]
    IN  IF s = <<>> THEN <<>>
        ELSE IF mode = "code"
        THEN (IF HasPrefix(s, <<"-","-">>) THEN hash(2) \o OutsideFrom(rest(2), "line")
              ELSE IF HasPrefix(s, <<"/","*">>) /\ Contains(rest(2), <<"*","/">>)
                   THEN hash(2) \o OutsideFrom(rest(2), "block")
              ELSE IF s[1] = "'" THEN hash(1) \o OutsideFrom(rest(1), "literal")
              ELSE <<s[1]>> \o OutsideFrom(rest(1), "code"))
        ELSE IF mode = "literal"
        THEN (IF HasPrefix(s, <<"'","'">>) THEN hash(2) \o OutsideFrom(rest(2), "literal")
              ELSE IF s[1] = "'" THEN hash(1) \o OutsideFrom(rest(1), "code")
              ELSE hash(1) \o OutsideFrom(rest(1), "literal"))
        ELSE IF mode = "line"
        THEN (IF s[1] \in {"\n", "\r"} THEN <<s[1]>> \o OutsideFrom(rest(1), "code")
              ELSE hash(1) \o OutsideFrom(rest(1), "line"))
        ELSE (IF HasPrefix(s, <<"*","/">>) THEN hash(2) \o OutsideFrom(rest(2), "code")
              ELSE hash(1) \o OutsideFrom(rest(1), "block"))

Outside(sql) == OutsideFrom(sql, "code")

\* keyword k appears in the text: verbatim, or as consecutive words
ConsecutiveIn(toks, words) ==
    /\ words # <<>>
    /\ \E i \in 1..Len(toks) :
          i + Len(words) - 1 <= Len(toks) /\ SubSeq(toks, i, i + Len(words) - 1) = words

AppearsIn(k, text) ==
    \/ Contains(ToLower(text), k)
    \/ ConsecutiveIn(tokenize(text), tokenize(k))

\* some configured keyword occurs verbatim in the text and none appears outside the
\* string literals and comments of the text
OnlyInsideLiteralsOrComments(kws, sql) ==
    /\ \E i \in 1..Len(kws) : Contains(ToLower(sql), kws[i])
    /\ \A i \in 1..Len(kws) : ~AppearsIn(kws[i], Outside(sql))

\* C13: token-mode safety: when the danger keywords of a text appear only inside
\* string literals or comments, Tokens mode classifies the text isDangerous = false
\* and WholeText mode classifies the same text isDangerous = true.
C13_TokenModeSafety ==
    LET r == req[Server]
        a == config.analyzer
    IN  (r.gate /\ OnlyInsideLiteralsOrComments(a.dangerKeywords, r.sql)) =>
            /\ a.matchMode = w_tokens => ~r.analysis.IsDangerous
            /\ a.matchMode = w_whole_text => r.analysis.IsDangerous

\* C14: in both match modes matchedKeywords lists the matching keywords in
\* configuration order with duplicates collapsed: no keyword appears twice, also when
\* the configured list holds the same phrase more than once.
C14_MatchedKeywordsDistinct ==
    LET r   == req[Server]
        m   == r.analysis.MatchedKeywords
        kws == config.analyzer.dangerKeywords
        first(k) == CHOOSE i \in 1..Len(kws) : kws[i] = k /\ \A j \in 1..(i - 1) : kws[j] # k
    IN  r.gate =>
            /\ \A i \in 1..Len(m) : m[i] \in SeqRange(kws)
            /\ \A i, j \in 1..Len(m) : i < j => (m[i] # m[j] /\ first(m[i]) < first(m[j]))

\* the words of a multi-word keyword k occur as consecutive words in the text
MultiWordOccurs(k, toks) == Len(tokenize(k)) > 1 /\ ConsecutiveIn(toks, tokenize(k))

\* Tokens mode: a keyword is matched iff its words are consecutive tokens of the
\* normalized text (for a single word: iff some token equals it)
TokensModeMatch ==
    LET r == req[Server]
        a == config.analyzer
    IN  (r.gate /\ a.matchMode = w_tokens) =>
            \A i \in 1..Len(a.dangerKeywords) :
                tokenize(a.dangerKeywords[i]) # <<>> =>
                    (a.dangerKeywords[i] \in SeqRange(r.analysis.MatchedKeywords)
                        <=> ConsecutiveIn(r.analysis.Tokens, tokenize(a.dangerKeywords[i])))

IsCreationText(sql) ==
    LET t     == tokenize(Outside(sql))
        n     == Len(t)
        kinds == {w_procedure, w_function, w_package}
        or      == <<"o","r">>
        replace == <<"r","e","p","l","a","c","e">>
    IN  /\ n >= 5
        /\ t[1] = w_create
        /\ t[2] \in kinds \/ (t[2] = or /\ t[3] = replace /\ t[4] \in kinds)
        /\ t[n] = w_end \/ t[n - 1] = w_end
        /\ HasSuffix(TrimSpace(sql), SEMI)

\* C16: a CREATE [OR REPLACE] PROCEDURE/FUNCTION/PACKAGE ... END text is one compound
\* creation block (IsPLSQLCreationDDL, not IsMultiStatement) whether END is followed
\* by a name or a bare semicolon and whether a space or a newline precedes it; a
\* text without CREATE is never a creation block.
C16_CreationBlockIsOneUnit ==
    LET r == req[Server] IN
    r.gate =>
        /\ IsCreationText(r.sql) =>
              (r.analysis.IsPLSQLCreationDDL /\ ~r.analysis.IsMultiStatement)
        /\ ~Contains(ToLower(r.sql), w_create) => ~r.analysis.IsPLSQLCreationDDL

\* a creation text whose END; stands on a line of its own has been classified
C16_Witness ==
    LET r == req[Server] IN
    /\ r.gate
    /\ IsCreationText(r.sql)
    /\ Contains(ToLower(r.sql), NL \o w_end \o SEMI)
    /\ r.analysis.IsPLSQLCreationDDL

\* C17: for every text and keyword configuration the classification satisfies
\* IsPLSQLCreationDDL => ~IsMultiStatement, IsPLSQLCreationDDL => ~ContainsPLSQL,
\* and IsDangerous <=> MatchedKeywords is non-empty.
C17_ClassificationInvariant ==
    LET r == req[Server] IN
    r.gate =>
        /\ r.analysis.IsPLSQLCreationDDL => ~r.analysis.IsMultiStatement
        /\ r.analysis.IsPLSQLCreationDDL => ~r.analysis.ContainsPLSQL
        /\ r.analysis.IsDangerous <=> (r.analysis.MatchedKeywords # <<>>)

\* a creation block with BEGIN ... END inside has been classified, and the generic
\* PL/SQL flag is suppressed
C17_Witness ==
    LET r == req[Server] IN
    /\ r.gate
    /\ r.analysis.IsPLSQLCreationDDL
    /\ w_begin \in SeqRange(r.analysis.Tokens)
    /\ w_end \in SeqRange(r.analysis.Tokens)
    /\ Contains(r.analysis.NormalizedSQL, SEMI)
    /\ ~r.analysis.ContainsPLSQL

\* the text starts with BEGIN or DECLARE and ends with END;
IsAnonymousBlockText(sql) ==
    LET t == tokenize(Outside(sql))
        n == Len(t)
    IN  /\ n >= 2
        /\ t[1] \in {w_begin, w_declare}
        /\ t[n] = w_end
        /\ HasSuffix(TrimSpace(sql), SEMI)

\* C18: an anonymous block, whether a space or a newline separates END from the text
\* before it, is one unit: it is classified not IsMultiStatement and ContainsPLSQL,
\* and the executor sends it to the database as a single statement.
C18_AnonymousBlockIsOneUnit ==
    LET r == req[Server] IN
    (r.gate /\ IsAnonymousBlockText(r.sql)) =>
        /\ ~r.analysis.IsMultiStatement
        /\ r.analysis.ContainsPLSQL
        /\ r.pc = "run" => Len(r.stmts) = 1

DDLVerbs ==
    { <<"c","r","e","a","t","e">>, <<"d","r","o","p">>, <<"a","l","t","e","r">>,
      <<"t","r","u","n","c","a","t","e">>, <<"r","e","n","a","m","e">>,
      <<"c","o","m","m","e","n","t">>, <<"g","r","a","n","t">>, <<"r","e","v","o","k","e">> }

\* C19: IsDDL is true exactly when the first token of the tokenized normalized text
\* equals one of create, drop, alter, truncate, rename, comment, grant, revoke; a
\* first token that only contains such a verb is not DDL, nor is an empty token stream.
C19_DDLIsExactFirstToken ==
    LET r == req[Server] IN
    r.gate =>
        /\ r.analysis.Tokens = tokenize(r.analysis.NormalizedSQL)
        /\ r.analysis.IsDDL <=>
              (r.analysis.Tokens # <<>> /\ r.analysis.Tokens[1] \in DDLVerbs)
        /\ r.isDDL = r.analysis.IsDDL

\* the text created_at, whose only token starts with a DDL verb, has been classified
C19_Witness ==
    LET r == req[Server] IN
    /\ r.gate
    /\ r.analysis.Tokens = << <<"c","r","e","a","t","e","d","_","a","t">> >>
    /\ ~r.analysis.IsDDL

\* the text holds a line comment marker or a closed block comment
HasComment(sql) ==
    \/ Contains(sql, <<"-","-">>)
    \/ \E i \in 1..Len(sql) :
          /\ i + 3 <= Len(sql)
          /\ SubSeq(sql, i, i + 1) = <<"/","*">>
          /\ Contains(SubSeq(sql, i + 2, Len(sql)), <<"*","/">>)

\* C20 as stated: the normalized text has the length of the original text.
C20_LengthPreserving ==
    LET r == req[Server] IN
    r.gate => Len(r.analysis.NormalizedSQL) = Len(r.sql)

\* C20 (amended): blanking string literals keeps the length and the offsets, while
\* each comment is replaced by one space: the normalized text is never longer than
\* the original, it has the same length exactly when the original holds no comment,
\* and then each of its characters is the original one or a blank.
C20_LengthPreservingWithoutComments ==
    LET r == req[Server]
        n == r.analysis.NormalizedSQL
    IN  r.gate =>
            /\ Len(n) <= Len(r.sql)
            /\ Len(n) = Len(r.sql) <=> ~HasComment(r.sql)
            /\ ~HasComment(r.sql) =>
                  \A i \in 1..Len(n) : n[i] = r.sql[i] \/ n[i] = " "

\* a text with a line comment has been normalized to a shorter text
C20_Witness ==
    LET r == req[Server] IN
    /\ r.gate
    /\ Contains(r.sql, <<"-","-"," ">>)
    /\ Len(r.analysis.NormalizedSQL) < Len(r.sql)
    /\ Len(r.analysis.NormalizedSQL) > 0

\* the text with every string literal blanked character by character, as the SQL
\* lexical rules delimit literals: '' inside a literal is an escaped quote, '' outside
\* one is the empty literal, an unclosed literal runs to the end of the text
RECURSIVE BlankLiteralsFrom(_, _)
BlankLiteralsFrom(s, inLiteral) ==
    LET rest(n) == SubSeq(s, n + 1, Len(s)) IN
    IF s = <<>> THEN <<>>
    ELSE IF ~inLiteral
    THEN (IF s[1] = "'" THEN SP \o BlankLiteralsFrom(rest(1), TRUE)
          ELSE <<s[1]>> \o BlankLiteralsFrom(rest(1), FALSE))
    ELSE IF HasPrefix(s, <<"'","'">>) THEN SP \o SP \o BlankLiteralsFrom(rest(2), TRUE)
    ELSE IF s[1] = "'" THEN SP \o BlankLiteralsFrom(rest(1), FALSE)
    ELSE SP \o BlankLiteralsFrom(rest(1), TRUE)

BlankLiterals(sql) == BlankLiteralsFrom(sql, FALSE)

\* C21: every string literal, also one holding the escaped quote '' and the empty
\* literal '', is replaced character by character with spaces from its opening to its
\* closing quote and the text after it is unchanged; an unclosed literal blanks
\* everything to the end of the text.
C21_LiteralsBlanked ==
    LET r == req[Server] IN
    r.gate => r.analysis.NormalizedSQL = BlankLiterals(removeComments(r.sql))

\* caller p completes its Log call in this step
LogReturns(p) == req[p].pc = "log" /\ req'[p].pc = "idle"

\* the size of the entry of the Log call caller p is in
EntrySize(p) ==
    Len(FormatEntry(0, req[p].sql, req[p].matchedKeywords, req[p].audit.approved,
                    req[p].audit.action, req[p].displayConnection))

\* the entry of caller p crosses the cap of the current file
Crossing(p) ==
    auditor.currentSize + EntrySize(p) >= MaxAuditLogBytes /\ auditor.currentSize > 0

RecordsIn(fs, f) == IF f \in DOMAIN fs THEN fs[f].recs ELSE <<>>

\* this step appends one record of caller p to exactly one file and changes no other
AppendsOneRecord(p) ==
    \E f \in DOMAIN files' :
        /\ Len(files'[f].recs) = Len(RecordsIn(files, f)) + 1
        /\ SubSeq(files'[f].recs, 1, Len(RecordsIn(files, f))) = RecordsIn(files, f)
        /\ files'[f].recs[Len(files'[f].recs)].req = req[p].id
        /\ files'[f].recs[Len(files'[f].recs)].sql = req[p].sql
        /\ \A g \in DOMAIN files' \ {f} : files'[g].recs = RecordsIn(files, g)

\* C22: each Log call whose entry crosses the cap opens a new file whose name is
\* distinct from and ordered after every earlier file name, and every record is
\* written to exactly one file, none lost and none duplicated.
C22_RotationKeepsEveryRecord ==
    [][\A p \in Callers : LogReturns(p) =>
          /\ Crossing(p) =>
                /\ auditor'.file \notin DOMAIN files
                /\ \A f \in DOMAIN files : f < auditor'.file
          /\ AppendsOneRecord(p)]_vars

\* the rotation attempted in this step of caller p fails: the auditor is left
\* without an open file
RotationFails(p) == LogReturns(p) /\ Crossing(p) /\ auditor'.file = NoFile

\* C23: when opening the rotation file fails during Log, the record is still written
\* to the file that was current before the rotation attempt, and later Log calls keep
\* writing records.
C23_RotateFailureKeepsRecord ==
    [][\A p \in Callers :
          /\ (RotationFails(p) /\ auditor.file # NoFile) =>
                /\ AppendsOneRecord(p)
                /\ files'[auditor.file].recs # files[auditor.file].recs
          /\ (LogReturns(p) /\ auditor.file = NoFile /\ auditor'.file # NoFile) =>
                AppendsOneRecord(p)]_vars

\* NewAuditor has returned and no Log call has been made yet
AtStartup == \A p \in Procs : req[p].pc = "idle" /\ req[p].logged = 0

\* the rotation files that an earlier run left
LeftByEarlierRun == {f \in DOMAIN files : files[f].pre > 0}

Newest(S) == CHOOSE f \in S : \A g \in S : g <= f

SentinelLines(bytes) ==
    {i \in 1..Len(bytes) : OccursAt(bytes, i, t_AUDIT_END) /\ (i = 1 \/ bytes[i - 1] = "\n")}

SplitAtSentinel(bytes) ==
    LET cuts   == SentinelLines(bytes)
        cut(k) == CHOOSE i \in cuts : Cardinality({j \in cuts : j < i}) = k - 1
        from(k) == IF k = 1 THEN 1 ELSE cut(k - 1) + Len(t_AUDIT_END)
        n      == Cardinality(cuts)
        whole  == [k \in 1..n |-> SubSeq(bytes, from(k), cut(k) - 1)]
    IN  IF from(n + 1) <= Len(bytes)
        THEN Append(whole, SubSeq(bytes, from(n + 1), Len(bytes)))
        ELSE whole

\* the SQL text of one record as read: what follows the AUDIT_SQL= line
SqlRead(record) ==
    LET key == <<"A","U","D","I","T","_","S","Q","L","=","\n">>
        at  == Index(record, key)
    IN  IF at = 0 THEN <<>> ELSE SubSeq(record, at + Len(key), Len(record))

\* the bytes this run appended to file f
Appended(f) == Join([i \in 1..Len(files[f].recs) |-> files[f].recs[i].entry], <<>>)

\* C25: a reader that splits the audit file at the end-of-record sentinel line
\* recovers exactly the records that were appended, one per Log call, each with the
\* SQL text that was logged (up to the line end that closes the text).
C25_RecordsReadBack ==
    \A f \in DOMAIN files :
        LET read == SplitAtSentinel(Appended(f)) IN
        /\ Len(read) = Len(files[f].recs)
        /\ \A i \in 1..Len(read) :
              i <= Len(files[f].recs) =>
                  TrimSuffix(SqlRead(read[i]), NL) = TrimSuffix(files[f].recs[i].sql, NL)

\* C26: concurrent Log calls on one auditor are serialized: at most one caller is
\* inside Log, nothing changes the auditor or the files while a caller is inside
\* Log except that caller's own step, and every caller's record is written, whole,
\* to one file.
C26_LogCallsSerialized ==
    [][/\ \A p, q \in Callers : (req[p].pc = "log" /\ req[q].pc = "log") => p = q
       /\ \A p \in Callers :
             (req[p].pc = "log" /\ req'[p].pc = "log") => UNCHANGED <<auditor, files>>
       /\ \A p \in Callers : LogReturns(p) =>
             /\ AppendsOneRecord(p)
             /\ \E f \in DOMAIN files' :
                   /\ files'[f].recs # RecordsIn(files, f)
                   /\ \E t \in 0..MaxClock :
                        files'[f].recs[Len(files'[f].recs)].entry =
                           FormatEntry(t, req[p].sql, req[p].matchedKeywords, req[p].audit.approved,
                                       req[p].audit.action, req[p].displayConnection)]_vars

\* the other processes do not have to wait for a lock on behalf of process p: a
\* demotion, a listing and a Close can take the pool's write lock, and the
\* auditor's mutex is not held by p
OthersProceed(p) ==
    /\ \A q \in Procs \ {p} : req[q].pc = "mark" => PoolLockFree(q)
    /\ lister.pc = "idle" => PoolLockFree("lister")
    /\ ~poolClosed => PoolLockFree("closer")
    /\ AuditLocked => \E q \in Procs \ {p} : req[q].pc = "log"

\* C27: a request that waits for the human confirmation or for its statement on the
\* database holds no lock of the pool or of the auditor, and the lookups, listings
\* and audit writes of the others can proceed.
C27_NoLockHeldWhileWaiting ==
    \A p \in Procs :
        req[p].pc \in {"confirm", "run"} =>
            /\ req[p].lock = "none"
            /\ OthersProceed(p)

\* the server waits for the dialog while a caller's statement runs, a caller is
\* inside Log and a listing is between its two halves
C27_Witness ==
    /\ req[Server].pc = "confirm"
    /\ req["c1"].pc = "run"
    /\ req["c2"].pc = "log"
    /\ lister.pc = "read"

\* process p returns from markConnectionFailed in this step
Demotes(p) == req[p].pc = "mark" /\ req'[p].pc # "mark"

\* C28: demotions of one name are serialized: of the executions on the same Healthy
\* handle that end in a connection-class error, the first demotion closes the handle
\* and moves the name to Failed with its configured DSN; a demotion whose handle
\* was already closed by an earlier one changes nothing.
C28_DemotedOnce ==
    [][\A p \in Procs : (Demotes(p) /\ ~poolClosed) =>
          LET name == req[p].name
              ex   == req[p].ex
          IN  IF ex \in openHandles
              THEN /\ name \in Healthy /\ executors[name] = ex
                   /\ openHandles' = openHandles \ {ex}
                   /\ name \notin Healthy'
                   /\ name \in Failed' /\ failed'[name] = dsns[name]
              ELSE UNCHANGED <<executors, failed, openHandles>>
      ]_vars

w_listConnections == <<"l","i","s","t","_","c","o","n","n","e","c","t","i","o","n","s">>

w_currentlyUnavailable == <<"i","s"," ","c","u","r","r","e","n","t","l","y"," ","u","n","a","v","a","i","l","a","b","l","e">>

\* a fmt.Errorf text that says the name is unavailable and points to list_connections
SaysUnavailable(err, name) ==
    /\ Contains(err, <<"\"">> \o name \o <<"\"", " ">> \o w_currentlyUnavailable)
    /\ Contains(err, w_listConnections)

\* C29: Execute on a Failed name returns the unavailable error, sends nothing, opens
\* no connection and leaves both maps as they are; a Failed name becomes Healthy
\* only in the retry of ListConnectionsWithStatus.
C29_FailedStaysFailedInExecute ==
    [][ /\ \A p \in Procs :
             (req[p].pc = "lookup" /\ req'[p].pc # "lookup" /\ req[p].name \in Failed) =>
                 /\ req'[p].executed = "error"
                 /\ SaysUnavailable(req'[p].err, req[p].name)
                 /\ req'[p].sent = <<>>
                 /\ UNCHANGED <<executors, failed, openHandles, nextHandle>>
        /\ \A n \in Failed :
             n \in Healthy' => /\ lister.pc = "idle" /\ lister'.pc = "read"
                               /\ n \in lister'.recovered
                               /\ \A p \in Procs : req'[p] = req[p]
      ]_vars

\* a caller was refused on a Failed name that is still Failed
C29_Witness ==
    \E c \in Callers :
        /\ req[c].executed = "error" /\ SaysUnavailable(req[c].err, req[c].name)
        /\ req[c].name \in Failed /\ req[c].sent = <<>>

\* the text is a compound creation block or an anonymous block
IsBlockText(sql) == IsCreationText(sql) \/ IsAnonymousBlockText(sql)

\* C30: every statement sent for a compound creation block or an anonymous block
\* ends with its semicolon, and every other statement is sent without a trailing
\* semicolon.
C30_SemicolonOnlyOnBlocks ==
    LET r == req[Server] IN
    r.pc = "run" =>
        IF IsBlockText(r.sql)
        THEN \A i \in 1..Len(r.stmts) : HasSuffix(r.stmts[i], SEMI)
        ELSE \A i \in 1..Len(r.stmts) : HasSuffix(r.stmts[i], SEMI) => IsBlockText(r.stmts[i])

\* the statements handed to the driver so far for request r, in the order sent
SentStatements(r) == [i \in 1..Len(r.sent) |-> r.sent[i].stmt]

\* C31: for a multi-statement text the statements are sent one at a time in textual
\* order; after the first statement that fails nothing more is sent, the request is
\* answered with the execution failure and no result, and, with audit logging on,
\* it has exactly one audit record, tagged EXECUTION_ERROR.
C31_StopAtFirstFailure ==
    LET r   == req[Server]
        all == statementsOf(r.sql)
    IN  (r.gate /\ Len(all) > 1) =>
            /\ Len(r.sent) <= Len(all)
            /\ SentStatements(r) = SubSeq(all, 1, Len(r.sent))
            /\ r.pc = "run" => r.stmts = SubSeq(all, Len(r.sent) + 1, Len(all))
            /\ (r.executed = "error" /\ r.sent # <<>>) =>
                  /\ \E d \in DriverErrors : r.err = wrapDriverError(all[Len(r.sent)], d)
                  /\ r.toSend = [kind |-> "toolResult", isError |-> TRUE, text |-> t_sqlExecutionFailed \o r.err]
            /\ (r.executed = "error" /\ Completed(r) /\ config.auditLog) =>
                  /\ Cardinality(AuditRecordsOf(r.id)) = 1
                  /\ \A p \in AuditRecordsOf(r.id) :
                        AuditRecord(p).action = w_EXECUTION_ERROR \o r.err

\* the trimmed text, one trailing semicolon aside, still holds a semicolon
SemicolonRemains(text) == Contains(TrimSuffix(TrimSpace(text), SEMI), SEMI)

\* C32: isMultiStatement is false when the trimmed normalized text has no semicolon
\* or only one trailing semicolon, or the text is a compound creation block or an
\* anonymous block, and true in every other case; a semicolon that occurs only
\* inside a string literal or a comment never makes it true.
C32_MultiStatementExactly ==
    LET r == req[Server] IN
    r.gate =>
        /\ r.analysis.IsMultiStatement <=>
              (SemicolonRemains(r.analysis.NormalizedSQL) /\ ~IsBlockText(r.sql))
        /\ ~Contains(Outside(r.sql), SEMI) => ~r.analysis.IsMultiStatement

\* characters that separate words in SQL text
Separators == {" ", "\n", "\t", "(", ")"}

\* the word w stands in text between separators (or at either end of the text)
HasWord(text, w) ==
    \E i \in 1..(Len(text) - Len(w) + 1) :
        /\ SubSeq(text, i, i + Len(w) - 1) = w
        /\ i = 1 \/ text[i - 1] \in Separators
        /\ i + Len(w) > Len(text) \/ text[i + Len(w)] \in Separators

\* "end" after a space or a newline and before a space, a semicolon or the end of the text
HasEndDelimiter(text) ==
    \E i \in 2..(Len(text) - 2) :
        /\ SubSeq(text, i, i + 2) = w_end
        /\ text[i - 1] \in {" ", "\n"}
        /\ i + 2 = Len(text) \/ text[i + 3] \in {" ", ";"}

\* C33: compound creation-block detection is true exactly when the text, from its
\* first "create" on, holds one of the words procedure, function or package and a
\* terminating end delimiter, whatever separator (space, newline, parenthesis)
\* stands before and after the word
C33_CreationDetectedExactly ==
    LET r     == req[Server]
        lower == ToLower(TrimSpace(r.sql))
        idx   == Index(lower, w_create)
        stmt  == SubSeq(lower, idx, Len(lower))
    IN  r.gate =>
            (r.analysis.IsPLSQLCreationDDL <=>
                /\ idx # 0
                /\ \E w \in {w_procedure, w_function, w_package} : HasWord(stmt, w)
                /\ HasEndDelimiter(stmt))

\* C34: a failure of the confirmation dialog itself (it cannot be started, ends
\* abnormally or gives no result) comes back from the collaborator as an error and
\* is audited as CONFIRM_ERROR; it never comes back as approved = false without an
\* error, which is what a click on Cancel gives
C34_DialogFailureIsError ==
    [][\A os \in Platforms : \A o \in DialogFailures(os) :
          ConfirmDialog(os, o) =>
              /\ req'[Server].confirmErr # NoErr
              /\ req'[Server].audit = [approved |-> FALSE,
                                       action |-> w_CONFIRM_ERROR \o req'[Server].confirmErr]
              /\ req'[Server] # afterConfirm(req[Server], FALSE, NoErr)]_vars

\* the places of text where a semicolon outside every literal and comment is
\* followed by a newline
SplitPoints(text) ==
    {i \in 1..(Len(text) - 1) : Outside(text)[i] = ";" /\ text[i + 1] = "\n"}

\* C35: the executor splits a text at the classifier's statement boundaries: a text
\* the classifier reports as not multi-statement is sent as one statement, and a
\* semicolon followed by a newline inside a string literal or a comment is never a
\* split point
C35_ExecutorSplitsAsClassified ==
    LET r == req[Server] IN
    (r.pc = "run" /\ r.sent = <<>>) =>
        /\ ~r.analysis.IsMultiStatement => Len(r.stmts) <= 1
        /\ Len(r.stmts) <= 1 + Cardinality(SplitPoints(r.sql))

\* what the analyzer of the configuration returns for the text when its match mode
\* is set to whole_text
InWholeTextMode(sql) == Analyze([config.analyzer EXCEPT !.matchMode = w_whole_text], sql)

\* C36: WholeText is the stricter mode: every keyword matched in Tokens mode is also
\* matched in WholeText mode for the same text and keyword list, so a text that
\* needs confirmation under Tokens needs it under WholeText as well
C36_WholeTextStricter ==
    LET r == req[Server]
        m == r.analysis.MatchedKeywords
    IN  (r.gate /\ config.analyzer.matchMode = w_tokens) =>
            /\ \A i \in 1..Len(m) : m[i] \in SeqRange(InWholeTextMode(r.sql).MatchedKeywords)
            /\ r.analysis.IsDangerous => InWholeTextMode(r.sql).IsDangerous

\* the words of keyword k stand as consecutive standalone tokens outside every
\* string literal and every comment of the text
StandsOutside(k, sql) == ConsecutiveIn(tokenize(Outside(sql)), tokenize(k))

\* C37: in Tokens mode no danger keyword is missed: a configured keyword that occurs
\* as a standalone token outside every string literal and every comment of the text
\* is in matchedKeywords, whatever else the text holds (comment markers inside
\* literals, escaped or empty quotes, unterminated constructs)
C37_NoKeywordMissed ==
    LET r   == req[Server]
        kws == config.analyzer.dangerKeywords
    IN  (r.gate /\ config.analyzer.matchMode = w_tokens) =>
            \A i \in 1..Len(kws) :
                StandsOutside(kws[i], r.sql) => kws[i] \in SeqRange(r.analysis.MatchedKeywords)

\* the handle of name n leaves the Healthy map in this step
LeavesHealthy(n) == n \in Healthy /\ (n \notin Healthy' \/ executors'[n] # executors[n])

\* C38: under any interleaving of Execute, ListConnectionsWithStatus and demotion, a
\* demotion removes from the Healthy map only the handle on which the
\* connection-class error was raised (never a handle installed by a later
\* successful retry), and every handle that leaves the Healthy map has been closed
C38_OnlyFailedHandleRemoved ==
    [][\A n \in Healthy : LeavesHealthy(n) =>
          /\ executors[n] \notin openHandles'
          /\ ~poolClosed' =>
                \E p \in Procs : Demotes(p) /\ req[p].name = n /\ req[p].ex = executors[n]
      ]_vars
====
